---- MODULE Spec2Model ----
(***************************************************************************)
(* Model of the QGENOME core: sequence validation (hmm_models.py,          *)
(* physioq_encoder.py), Needleman-Wunsch global and windowed alignment     *)
(* (vqe_alignment.py), Smith-Waterman local alignment (smith_waterman.py), *)
(* exact Viterbi decoding (classical_viterbi.py) and step-local decoding   *)
(* (qva_viterbi.py).                                                       *)
(*                                                                         *)
(* A Python str is modelled as a sequence of one-character strings.        *)
(* Scores are the integers 2, -1, -2: the floats 2.0, -1.0, -2.0 of the    *)
(* source add exactly at the magnitudes reached here.                      *)
(***************************************************************************)
EXTENDS Integers, Sequences, FiniteSets, TLC

VARIABLES
    pc,              \* "idle", "qva" (inside the loop of run_quantum_viterbi), "done"
    req,             \* the call and its arguments
    res,             \* what the call returned, or the error it raised
    scores,          \* the score matrix of the call (of its last alignment)
    traceback,       \* the traceback matrix of the call (of its last alignment)
    work,            \* the sequence lengths the call ran a fill or a decoding loop over
    qva,             \* the locals of run_quantum_viterbi
    vqe_engine,      \* main.vqe_engine
    smith_waterman,  \* main.smith_waterman
    hmm_configs,     \* hmm_models.HMM_CONFIGS
    calls,           \* two calls in progress at once: each its position, arguments, result and locals
    job              \* the processing job of the /align handler in the database, with the statuses it had

vars == <<pc, req, res, scores, traceback, work, qva, vqe_engine, smith_waterman, hmm_configs,
          calls, job>>

(***************************************************************************)
(* Bounds of the model                                                     *)
(***************************************************************************)
\* longest raw string enumerated character by character
MaxLen == 3

\* the length ceiling of the source
MAX_BASES == 500

\* characters of the raw strings handed to the validators
RawChars == {"A", "c", "G", "t", " ", "\n", "\t", "N"}

\* characters of the raw strings handed to the alignment engines
AlignChars == {"A", "C", "g"}

Strings(chars, k) == UNION {[1..len -> chars] : len \in 0..k}

Repeat(c, k) == [i \in 1..k |-> c]

\* raw strings around the length ceiling
LongStrings == {Repeat("A", MAX_BASES), Repeat("A", MAX_BASES + 1)}

\* raw strings with whitespace or a foreign character, for the engines
SpecialStrings ==
    {<<" ", "A">>, <<"A", " ", "C">>, <<"A", "\n">>, <<"N">>, <<" ">>, <<"A", "T", "G", "C">>}

ShortInputs == Strings(AlignChars, MaxLen) \cup SpecialStrings

AlignInputs == ShortInputs \X ShortInputs

\* pairs for the five core operations: the short ones, and a long string
\* beside a short one
CoreInputs ==
    AlignInputs
        \cup (LongStrings \X {<<"A">>, <<"C">>})
        \cup ({<<"A">>, <<"C">>} \X LongStrings)

\* (window_size, overlap) of the windowed alignments
WindowParams == {<<2, 0>>, <<2, 1>>, <<3, 1>>}

\* pairs for the windowed alignments: two bases, up to one longer than the
\* widest window
WindowInputs ==
    (Strings({"A", "C"}, MaxLen + 1) \cup SpecialStrings)
        \X (Strings({"A", "C"}, MaxLen + 1) \cup SpecialStrings)

\* characters of the raw strings handed to the decoders
DecodeChars == {"A", "G", "c", " "}

\* the longest run of one base handed to the exact decoder
RunLen == 30

\* runs of one base
RunInputs == {Repeat(c, k) : c \in {"A", "C", "G", "T"}, k \in 1..RunLen}

\* raw strings for the decoders
DecodeInputs ==
    Strings(DecodeChars, MaxLen)
        \cup {<<"\t", "A">>, <<"A", "\n", "T">>, <<"N">>, <<"A", "T", "G", "C">>,
              Repeat("A", MAX_BASES + 1)}

ValidateInputs == Strings(RawChars, MaxLen) \cup LongStrings

(***************************************************************************)
(* Python str helpers                                                      *)
(***************************************************************************)
Max2(a, b) == IF a >= b THEN a ELSE b
Min2(a, b) == IF a <= b THEN a ELSE b

\* the characters str.strip() removes (those that occur in the model)
Whitespace == {" ", "\t", "\n", "\r"}

\* str.upper(), one character
UpperChar(c) ==
    CASE c = "a" -> "A"
      [] c = "c" -> "C"
      [] c = "g" -> "G"
      [] c = "t" -> "T"
      [] c = "n" -> "N"
      [] OTHER -> c

Upper(s) == [i \in 1..Len(s) |-> UpperChar(s[i])]

\* str.strip(): drop leading and trailing whitespace only
Strip(s) ==
    LET keep == {i \in 1..Len(s) : s[i] \notin Whitespace}
    IN  IF keep = {} THEN <<>>
        ELSE LET first == CHOOSE i \in keep : \A k \in keep : i <= k
                 last == CHOOSE i \in keep : \A k \in keep : i >= k
             IN  SubSeq(s, first, last)

\* str.replace(c, ''): drop every occurrence of c
Remove(s, c) == SelectSeq(s, LAMBDA x : x # c)

\* the slice s[lo:hi], for 0 <= lo and hi <= len(s)
Slice(s, lo, hi) == SubSeq(s, lo + 1, hi)

Reverse(s) == [i \in 1..Len(s) |-> s[Len(s) + 1 - i]]

CharsOf(s) == {s[i] : i \in 1..Len(s)}

(***************************************************************************)
(* The validators                                                          *)
(***************************************************************************)
VALID_BASES == {"A", "T", "G", "C"}

NoMatrix == <<>>
NoReq == [op |-> "none"]
NoRes == [ok |-> FALSE, error |-> "none"]

Ok(v) == [ok |-> TRUE, value |-> v]
Raise(kind) == [ok |-> FALSE, error |-> kind]

\* PhysioQEncoder.validate
validate(seq) ==
    LET normalized == Upper(Strip(seq))
        invalid == {i \in 1..Len(normalized) : normalized[i] \notin VALID_BASES}
    IN  IF invalid # {} THEN Raise("InvalidSymbol") ELSE Ok(normalized)

\* hmm_models.validate_sequence
validate_sequence(sequence) ==
    LET cleaned == Upper(Remove(Remove(sequence, "\n"), " "))
        invalid_bases == CharsOf(cleaned) \ {"A", "C", "G", "T"}
    IN  IF invalid_bases # {} THEN Raise("InvalidSymbol")
        ELSE IF Len(cleaned) = 0 THEN Raise("EmptySequence")
        ELSE IF Len(cleaned) > MAX_BASES THEN Raise("SequenceTooLong")
        ELSE Ok(cleaned)

(***************************************************************************)
(* VQEAlignment: Needleman-Wunsch global alignment                         *)
(***************************************************************************)
Cells(n, m) == (0..n) \X (0..m)

Max3(a, b, c) == Max2(Max2(a, b), c)

\* the checks of VQEAlignment._validate_inputs on the two outcomes v1, v2 of
\* PhysioQEncoder.validate
VQE_checks(self, v1, v2) ==
    IF ~v1.ok THEN v1
    ELSE IF ~v2.ok THEN v2
    ELSE IF Len(v1.value) = 0 \/ Len(v2.value) = 0 THEN Raise("EmptySequence")
    ELSE IF Len(v1.value) > 500 \/ Len(v2.value) > 500 THEN Raise("SequenceTooLong")
    ELSE IF (Len(v1.value) + Len(v2.value)) * 3 > self.max_qubits THEN Raise("QubitBudget")
    ELSE [ok |-> TRUE, seq1 |-> v1.value, seq2 |-> v2.value]

\* VQEAlignment._validate_inputs
VQE_validate_inputs(self, seq1, seq2) == VQE_checks(self, validate(seq1), validate(seq2))

\* the matrices with row 0 and column 0 of the scores left at zero
VQE_init_matrices_zero(self, n, m) ==
    [scores |-> [c \in Cells(n, m) |-> 0],
     traceback |-> [c \in Cells(n, m) |->
                    IF c[1] >= 1 /\ c[2] = 0 THEN 1
                    ELSE IF c[1] = 0 /\ c[2] >= 1 THEN 2
                    ELSE 0]]

\* VQEAlignment._init_matrices: 0 diag, 1 up, 2 left
VQE_init_matrices(self, n, m) ==
    [scores |-> [c \in Cells(n, m) |->
                    IF c[1] >= 1 /\ c[2] = 0 THEN c[1] * self.gap_penalty
                    ELSE IF c[1] = 0 /\ c[2] >= 1 THEN c[2] * self.gap_penalty
                    ELSE 0],
     traceback |-> [c \in Cells(n, m) |->
                    IF c[1] >= 1 /\ c[2] = 0 THEN 1
                    ELSE IF c[1] = 0 /\ c[2] >= 1 THEN 2
                    ELSE 0]]

\* the move with the priority turned round: left, then up, then diagonal
VQE_move_leftfirst(best, match, delete, insert) ==
    IF best = insert THEN 2
    ELSE IF best = delete THEN 1
    ELSE 0

\* the move recorded for a cell of the global fill
VQE_move(best, match, delete, insert) ==
    IF best = match THEN 0
    ELSE IF best = delete THEN 1
    ELSE 2

\* VQE_cell with the match reward and the mismatch penalty swapped
VQE_cell_swapped(self, seq1, seq2, st, i, j) ==
    LET match == st.scores[<<i - 1, j - 1>>]
                   + (IF seq1[i] = seq2[j] THEN self.mismatch_penalty ELSE self.match_score)
        delete == st.scores[<<i - 1, j>>] + self.gap_penalty
        insert == st.scores[<<i, j - 1>>] + self.gap_penalty
        best == Max3(match, delete, insert)
    IN  [st EXCEPT !.scores[<<i, j>>] = best,
                   !.traceback[<<i, j>>] = VQE_move(best, match, delete, insert)]

\* one cell of VQEAlignment._fill
VQE_cell(self, seq1, seq2, st, i, j) ==
    LET match == st.scores[<<i - 1, j - 1>>]
                   + (IF seq1[i] = seq2[j] THEN self.match_score ELSE self.mismatch_penalty)
        delete == st.scores[<<i - 1, j>>] + self.gap_penalty
        insert == st.scores[<<i, j - 1>>] + self.gap_penalty
        best == Max3(match, delete, insert)
    IN  [st EXCEPT !.scores[<<i, j>>] = best,
                   !.traceback[<<i, j>>] = VQE_move(best, match, delete, insert)]

\* the inner loop of VQEAlignment._fill: columns lo..hi of row i, in order
\* (the range is halved so that a long row needs no deep recursion; the test
\* on left is always true and makes TLC evaluate left before it goes on)
RECURSIVE VQE_fill_row(_, _, _, _, _, _, _)
VQE_fill_row(self, seq1, seq2, st, i, lo, hi) ==
    IF lo > hi THEN st
    ELSE IF lo = hi THEN VQE_cell(self, seq1, seq2, st, i, lo)
    ELSE LET mid == (lo + hi) \div 2
             left == VQE_fill_row(self, seq1, seq2, st, i, lo, mid)
         IN  IF DOMAIN left.scores # {}
             THEN VQE_fill_row(self, seq1, seq2, left, i, mid + 1, hi)
             ELSE left

\* max of row i of the score matrix
RowMax(sc, i, m) == CHOOSE v \in {sc[<<i, j>>] : j \in 0..m} : \A j \in 0..m : sc[<<i, j>>] <= v

\* one pass of the outer loop of VQEAlignment._fill
VQE_row(self, seq1, seq2, st, i) ==
    LET row == VQE_fill_row(self, seq1, seq2, st, i, 1, Len(seq2))
        entry == [iteration |-> i, energy |-> -RowMax(row.scores, i, Len(seq2))]
    IN  [row EXCEPT !.history = Append(@, entry)]

\* the outer loop of VQEAlignment._fill: rows lo..hi, in order
RECURSIVE VQE_fill_rows(_, _, _, _, _, _)
VQE_fill_rows(self, seq1, seq2, st, lo, hi) ==
    IF lo > hi THEN st
    ELSE IF lo = hi THEN VQE_row(self, seq1, seq2, st, lo)
    ELSE LET mid == (lo + hi) \div 2
             left == VQE_fill_rows(self, seq1, seq2, st, lo, mid)
         IN  IF DOMAIN left.scores # {}
             THEN VQE_fill_rows(self, seq1, seq2, left, mid + 1, hi)
             ELSE left

\* VQEAlignment._fill
VQE_fill(self, seq1, seq2) ==
    LET init == VQE_init_matrices(self, Len(seq1), Len(seq2))
    IN  VQE_fill_rows(self, seq1, seq2,
                      [scores |-> init.scores, traceback |-> init.traceback, history |-> <<>>],
                      1, Len(seq1))

\* VQE_traceback_step with the gap of an up move put into the first string
VQE_traceback_step_gapswap(tb, seq1, seq2, t) ==
    LET i == t.i
        j == t.j
        move == tb[<<i, j>>]
    IN  IF move = 0
        THEN [t EXCEPT !.aligned1 = Append(@, seq1[i]),
                       !.aligned2 = Append(@, seq2[j]),
                       !.path = Append(@, IF seq1[i] = seq2[j] THEN "E" ELSE "I"),
                       !.i = i - 1, !.j = j - 1,
                       !.cells = Append(@, <<i, j>>)]
        ELSE IF move = 1
        THEN [t EXCEPT !.aligned1 = Append(@, "-"),
                       !.aligned2 = Append(@, seq1[i]),
                       !.path = Append(@, "I"),
                       !.i = i - 1,
                       !.cells = Append(@, <<i, j>>)]
        ELSE [t EXCEPT !.aligned1 = Append(@, "-"),
                       !.aligned2 = Append(@, seq2[j]),
                       !.path = Append(@, "I"),
                       !.j = j - 1,
                       !.cells = Append(@, <<i, j>>)]

\* VQE_traceback_step with the two markers of a diagonal move exchanged
VQE_traceback_step_markers(tb, seq1, seq2, t) ==
    LET i == t.i
        j == t.j
        move == tb[<<i, j>>]
    IN  IF move = 0
        THEN [t EXCEPT !.aligned1 = Append(@, seq1[i]),
                       !.aligned2 = Append(@, seq2[j]),
                       !.path = Append(@, IF seq1[i] = seq2[j] THEN "I" ELSE "E"),
                       !.i = i - 1, !.j = j - 1,
                       !.cells = Append(@, <<i, j>>)]
        ELSE IF move = 1
        THEN [t EXCEPT !.aligned1 = Append(@, seq1[i]),
                       !.aligned2 = Append(@, "-"),
                       !.path = Append(@, "I"),
                       !.i = i - 1,
                       !.cells = Append(@, <<i, j>>)]
        ELSE [t EXCEPT !.aligned1 = Append(@, "-"),
                       !.aligned2 = Append(@, seq2[j]),
                       !.path = Append(@, "I"),
                       !.j = j - 1,
                       !.cells = Append(@, <<i, j>>)]

\* a pass of the loop of the traceback whose up move stays in its row
VQE_traceback_step_stuck(tb, seq1, seq2, t) ==
    LET i == t.i
        j == t.j
        move == tb[<<i, j>>]
    IN  IF move = 0
        THEN [t EXCEPT !.aligned1 = Append(@, seq1[i]),
                       !.aligned2 = Append(@, seq2[j]),
                       !.path = Append(@, IF seq1[i] = seq2[j] THEN "E" ELSE "I"),
                       !.i = i - 1, !.j = j - 1,
                       !.cells = Append(@, <<i, j>>)]
        ELSE IF move = 1
        THEN [t EXCEPT !.aligned1 = Append(@, seq1[i]),
                       !.aligned2 = Append(@, "-"),
                       !.path = Append(@, "I"),
                       !.cells = Append(@, <<i, j>>)]
        ELSE [t EXCEPT !.aligned1 = Append(@, "-"),
                       !.aligned2 = Append(@, seq2[j]),
                       !.path = Append(@, "I"),
                       !.j = j - 1,
                       !.cells = Append(@, <<i, j>>)]

\* one iteration of the loop of VQEAlignment._traceback
VQE_traceback_step(tb, seq1, seq2, t) ==
    LET i == t.i
        j == t.j
        move == tb[<<i, j>>]
    IN  IF move = 0
        THEN [t EXCEPT !.aligned1 = Append(@, seq1[i]),
                       !.aligned2 = Append(@, seq2[j]),
                       !.path = Append(@, IF seq1[i] = seq2[j] THEN "E" ELSE "I"),
                       !.i = i - 1, !.j = j - 1,
                       !.cells = Append(@, <<i, j>>)]
        ELSE IF move = 1
        THEN [t EXCEPT !.aligned1 = Append(@, seq1[i]),
                       !.aligned2 = Append(@, "-"),
                       !.path = Append(@, "I"),
                       !.i = i - 1,
                       !.cells = Append(@, <<i, j>>)]
        ELSE [t EXCEPT !.aligned1 = Append(@, "-"),
                       !.aligned2 = Append(@, seq2[j]),
                       !.path = Append(@, "I"),
                       !.j = j - 1,
                       !.cells = Append(@, <<i, j>>)]

\* the while loop of VQEAlignment._traceback, at most k iterations of it
\* (k is halved so that a long path needs no deep recursion; the test on half
\* is always true and makes TLC evaluate half before it goes on)
RECURSIVE VQE_traceback_loop(_, _, _, _, _)
VQE_traceback_loop(tb, seq1, seq2, t, k) ==
    IF k = 0 \/ ~(t.i > 0 \/ t.j > 0) THEN t
    ELSE IF k = 1 THEN VQE_traceback_step(tb, seq1, seq2, t)
    ELSE LET half == VQE_traceback_loop(tb, seq1, seq2, t, k \div 2)
         IN  IF half.i >= 0
             THEN VQE_traceback_loop(tb, seq1, seq2, half, k - (k \div 2))
             ELSE half

\* VQEAlignment._traceback; cells lists the cells the loop visited, (i, j) is
\* where it stood after Len(seq1) + Len(seq2) iterations at most
VQE_traceback(tb, seq1, seq2) ==
    LET t == VQE_traceback_loop(tb, seq1, seq2,
                 [aligned1 |-> <<>>, aligned2 |-> <<>>, path |-> <<>>,
                  i |-> Len(seq1), j |-> Len(seq2), cells |-> <<>>],
                 Len(seq1) + Len(seq2))
    IN  [aligned1 |-> Reverse(t.aligned1), aligned2 |-> Reverse(t.aligned2),
         path |-> Reverse(t.path), cells |-> t.cells, i |-> t.i, j |-> t.j]

RECURSIVE Gcd(_, _)
Gcd(a, b) == IF b = 0 THEN a ELSE Gcd(b, a % b)

\* a float that is the ratio of two integers, in lowest terms
Ratio(num, den) ==
    LET g == Gcd(IF num < 0 THEN -num ELSE num, den)
    IN  [num |-> num \div g, den |-> den \div g]

\* Raised with the first row of a matrix already filled
Raised_late(v) == [res |-> v, scores |-> NoMatrix, traceback |-> NoMatrix, work |-> {<<1, 1>>}]

\* what a call that raised in validation leaves behind
Raised(v) == [res |-> v, scores |-> NoMatrix, traceback |-> NoMatrix, work |-> {}]

\* the dict with the energy reported as the raw score
VQE_result_energy(self, seq1, seq2, f, tr) ==
    LET score == f.scores[<<Len(seq1), Len(seq2)>>]
        max_len == Max2(Len(seq1), Len(seq2))
        best_possible == max_len * self.match_score
        worst_possible == max_len * self.gap_penalty
        span == best_possible - worst_possible
        clamped == Max2(0, Min2(span, score - worst_possible))
    IN  [res |-> [ok |-> TRUE,
                  final_energy |-> -score,
                  alignment_score |-> Ratio(clamped * 100, span),
                  alignment_score_raw |-> -score,
                  aligned_sequence1 |-> tr.aligned1,
                  aligned_sequence2 |-> tr.aligned2,
                  alignment_path |-> tr.path,
                  convergence |-> f.history,
                  qubits |-> (Len(seq1) + Len(seq2)) * 3,
                  seq1 |-> seq1,
                  seq2 |-> seq2,
                  cells |-> tr.cells,
                  stop |-> <<tr.i, tr.j>>],
         scores |-> f.scores,
         traceback |-> f.traceback,
         work |-> {<<Len(seq1), Len(seq2)>>}]

\* the dict VQEAlignment.align builds from the fill f and the traceback tr;
\* seq1, seq2 (the validated sequences), cells (the cells the traceback
\* visited) and stop (where it ended) are kept beside the fields of the dict
VQE_result(self, seq1, seq2, f, tr) ==
    LET score == f.scores[<<Len(seq1), Len(seq2)>>]
        max_len == Max2(Len(seq1), Len(seq2))
        best_possible == max_len * self.match_score
        worst_possible == max_len * self.gap_penalty
        span == best_possible - worst_possible
        clamped == Max2(0, Min2(span, score - worst_possible))
    IN  [res |-> [ok |-> TRUE,
                  final_energy |-> -score,
                  alignment_score |-> Ratio(clamped * 100, span),
                  alignment_score_raw |-> score,
                  aligned_sequence1 |-> tr.aligned1,
                  aligned_sequence2 |-> tr.aligned2,
                  alignment_path |-> tr.path,
                  convergence |-> f.history,
                  qubits |-> (Len(seq1) + Len(seq2)) * 3,
                  seq1 |-> seq1,
                  seq2 |-> seq2,
                  cells |-> tr.cells,
                  stop |-> <<tr.i, tr.j>>],
         scores |-> f.scores,
         traceback |-> f.traceback,
         work |-> {<<Len(seq1), Len(seq2)>>}]

\* VQEAlignment.align after the fill f
VQE_align_filled(self, seq1, seq2, f) ==
    VQE_result(self, seq1, seq2, f, VQE_traceback(f.traceback, seq1, seq2))

\* VQEAlignment.align after the validation v
VQE_align_validated(self, v) ==
    IF ~v.ok THEN Raised(v)
    ELSE VQE_align_filled(self, v.seq1, v.seq2, VQE_fill(self, v.seq1, v.seq2))

\* VQEAlignment.align, with the matrices it built and the sizes it ran on
VQE_align(self, seq1, seq2) ==
    VQE_align_validated(self, VQE_validate_inputs(self, seq1, seq2))

\* Range without the start of a last, shorter window
Range_whole(n, step) == [k \in 1..(n \div step) |-> (k - 1) * step]

\* range(0, n, step) for a step above zero, as a sequence
Range(n, step) == [k \in 1..((n + step - 1) \div step) |-> (k - 1) * step]

\* the sum of two ratios
RatioAdd(a, b) == Ratio(a.num * b.den + b.num * a.den, a.den * b.den)

\* VQE_window_result with the annotation of the pair put in front of the list
VQE_window_result_prepend(acc, window, r) ==
    IF ~acc.ok THEN acc
    ELSE IF ~r.res.ok THEN [acc EXCEPT !.ok = FALSE, !.error = r.res.error]
    ELSE [acc EXCEPT
             !.all_alignments = Append(@, [window |-> window,
                                           score |-> r.res.alignment_score,
                                           length |-> Len(r.res.alignment_path)]),
             !.all_paths = <<r.res.alignment_path>> \o @,
             !.total_score = RatioAdd(@, r.res.alignment_score),
             !.work = @ \cup r.work,
             !.scores = r.scores,
             !.traceback = r.traceback]

\* what one window pair adds to the lists of VQEAlignment.align_windowed: r
\* is the outcome of the alignment of the pair
VQE_window_result(acc, window, r) ==
    IF ~acc.ok THEN acc
    ELSE IF ~r.res.ok THEN [acc EXCEPT !.ok = FALSE, !.error = r.res.error]
    ELSE [acc EXCEPT
             !.all_alignments = Append(@, [window |-> window,
                                           score |-> r.res.alignment_score,
                                           length |-> Len(r.res.alignment_path)]),
             !.all_paths = Append(@, r.res.alignment_path),
             !.total_score = RatioAdd(@, r.res.alignment_score),
             !.work = @ \cup r.work,
             !.scores = r.scores,
             !.traceback = r.traceback]

\* the body of the nested loops of VQEAlignment.align_windowed, one window pair
VQE_window(self, seq1, seq2, window_size, acc, start1, start2) ==
    LET end1 == Min2(start1 + window_size, Len(seq1))
        end2 == Min2(start2 + window_size, Len(seq2))
    IN  VQE_window_result(acc, <<start1, end1, start2, end2>>,
                          VQE_align(self, Slice(seq1, start1, end1), Slice(seq2, start2, end2)))

\* the inner loop of VQEAlignment.align_windowed: windows lo..hi of seq2
RECURSIVE VQE_windows2(_, _, _, _, _, _, _, _, _)
VQE_windows2(self, seq1, seq2, window_size, starts2, acc, start1, lo, hi) ==
    IF lo > hi THEN acc
    ELSE IF lo = hi
    THEN VQE_window(self, seq1, seq2, window_size, acc, start1, starts2[lo])
    ELSE LET mid == (lo + hi) \div 2
             left == VQE_windows2(self, seq1, seq2, window_size, starts2, acc, start1, lo, mid)
         IN  IF left.ok \in BOOLEAN
             THEN VQE_windows2(self, seq1, seq2, window_size, starts2, left, start1, mid + 1, hi)
             ELSE left

\* the outer loop of VQEAlignment.align_windowed: windows lo..hi of seq1
RECURSIVE VQE_windows1(_, _, _, _, _, _, _, _, _)
VQE_windows1(self, seq1, seq2, window_size, starts1, starts2, acc, lo, hi) ==
    IF lo > hi THEN acc
    ELSE IF lo = hi
    THEN VQE_windows2(self, seq1, seq2, window_size, starts2, acc, starts1[lo], 1, Len(starts2))
    ELSE LET mid == (lo + hi) \div 2
             left == VQE_windows1(self, seq1, seq2, window_size, starts1, starts2, acc, lo, mid)
         IN  IF left.ok \in BOOLEAN
             THEN VQE_windows1(self, seq1, seq2, window_size, starts1, starts2, left, mid + 1, hi)
             ELSE left

\* "".join(all_paths)
RECURSIVE Join(_, _, _)
Join(parts, lo, hi) ==
    IF lo > hi THEN <<>>
    ELSE IF lo = hi THEN parts[lo]
    ELSE LET mid == (lo + hi) \div 2
         IN  Join(parts, lo, mid) \o Join(parts, mid + 1, hi)

\* the dict VQEAlignment.align_windowed builds from the lists acc of its
\* loops; a float is kept as an exact ratio
VQE_windowed_result(seq1, seq2, window_size, overlap, acc) ==
    LET count == Max2(1, Len(acc.all_alignments))
        avg_score == Ratio(acc.total_score.num, acc.total_score.den * count)
    IN  IF ~acc.ok
        THEN [res |-> Raise(acc.error), scores |-> acc.scores,
              traceback |-> acc.traceback, work |-> acc.work]
        ELSE [res |-> [ok |-> TRUE,
                       algorithm |-> "VQE-Windowed",
                       windowed |-> TRUE,
                       window_size |-> window_size,
                       overlap |-> overlap,
                       windows_processed |-> Len(acc.all_alignments),
                       average_score |-> avg_score,
                       alignment_score |-> avg_score,
                       final_energy |-> [avg_score EXCEPT !.num = -@],
                       alignment_path |-> Join(acc.all_paths, 1, Len(acc.all_paths)),
                       convergence |-> [k \in 1..Len(acc.all_alignments) |->
                           [iteration |-> k - 1,
                            energy |-> [acc.all_alignments[k].score EXCEPT !.num = -@]]],
                       window_results |-> acc.all_alignments,
                       seq1 |-> seq1,
                       seq2 |-> seq2],
              scores |-> acc.scores,
              traceback |-> acc.traceback,
              work |-> acc.work]

\* the nested loops of VQEAlignment.align_windowed over the window starts; a
\* step below zero gives empty ranges
VQE_windows(self, seq1, seq2, window_size, step) ==
    LET starts1 == IF step > 0 THEN Range(Len(seq1), step) ELSE <<>>
        starts2 == IF step > 0 THEN Range(Len(seq2), step) ELSE <<>>
    IN  VQE_windows1(self, seq1, seq2, window_size, starts1, starts2,
                     [ok |-> TRUE, error |-> "none", all_alignments |-> <<>>,
                      all_paths |-> <<>>, total_score |-> Ratio(0, 1), work |-> {},
                      scores |-> NoMatrix, traceback |-> NoMatrix],
                     1, Len(starts1))

\* VQE_align_windowed_validated without the delegation of short sequences
VQE_align_windowed_validated_nodelegate(self, v, window_size, overlap) ==
    IF ~v.ok THEN Raised(v)
    ELSE IF window_size - overlap = 0
    THEN Raised(Raise("ValueError"))
    ELSE VQE_windowed_result(v.seq1, v.seq2, window_size, overlap,
                             VQE_windows(self, v.seq1, v.seq2, window_size,
                                         window_size - overlap))

\* VQEAlignment.align_windowed after the validation v
VQE_align_windowed_validated(self, v, window_size, overlap) ==
    IF ~v.ok THEN Raised(v)
    ELSE IF Len(v.seq1) <= window_size /\ Len(v.seq2) <= window_size
    THEN VQE_align(self, v.seq1, v.seq2)
    ELSE IF window_size - overlap = 0
    THEN Raised(Raise("ValueError"))
    ELSE VQE_windowed_result(v.seq1, v.seq2, window_size, overlap,
                             VQE_windows(self, v.seq1, v.seq2, window_size,
                                         window_size - overlap))

\* VQEAlignment.align_windowed, with the matrices of the last alignment it
\* ran and the sizes of all of them
VQE_align_windowed(self, seq1, seq2, window_size, overlap) ==
    VQE_align_windowed_validated(self, VQE_validate_inputs(self, seq1, seq2),
                                 window_size, overlap)

(***************************************************************************)
(* SmithWaterman: local alignment                                          *)
(***************************************************************************)
\* the checks of SmithWaterman._validate_inputs on the two outcomes v1, v2
\* of PhysioQEncoder.validate
SW_checks(v1, v2) ==
    IF ~v1.ok THEN v1
    ELSE IF ~v2.ok THEN v2
    ELSE IF Len(v1.value) = 0 \/ Len(v2.value) = 0 THEN Raise("EmptySequence")
    ELSE [ok |-> TRUE, seq1 |-> v1.value, seq2 |-> v2.value]

\* SmithWaterman._validate_inputs
SW_validate_inputs(self, seq1, seq2) == SW_checks(validate(seq1), validate(seq2))

\* SmithWaterman._init_matrices
SW_init_matrices(n, m) ==
    [scores |-> [c \in Cells(n, m) |-> 0],
     traceback |-> [c \in Cells(n, m) |-> 0]]

\* the move recorded for a cell of the local fill
SW_move(best, match, delete, insert) ==
    IF best = 0 THEN 0
    ELSE IF best = match THEN 0
    ELSE IF best = delete THEN 1
    ELSE 2

\* SW_cell without the floor at zero
SW_cell_nofloor(self, seq1, seq2, st, i, j) ==
    LET match == st.scores[<<i - 1, j - 1>>]
                   + (IF seq1[i] = seq2[j] THEN self.match_score ELSE self.mismatch_penalty)
        delete == st.scores[<<i - 1, j>>] + self.gap_penalty
        insert == st.scores[<<i, j - 1>>] + self.gap_penalty
        best == Max3(match, delete, insert)
        upd == [st EXCEPT !.scores[<<i, j>>] = best,
                          !.traceback[<<i, j>>] = SW_move(best, match, delete, insert)]
    IN  IF best > st.max_score
        THEN [upd EXCEPT !.max_score = best, !.max_i = i, !.max_j = j]
        ELSE upd

\* the body of the nested loops of SmithWaterman.align, one cell
SW_cell(self, seq1, seq2, st, i, j) ==
    LET match == st.scores[<<i - 1, j - 1>>]
                   + (IF seq1[i] = seq2[j] THEN self.match_score ELSE self.mismatch_penalty)
        delete == st.scores[<<i - 1, j>>] + self.gap_penalty
        insert == st.scores[<<i, j - 1>>] + self.gap_penalty
        best == Max2(Max3(match, delete, insert), 0)
        upd == [st EXCEPT !.scores[<<i, j>>] = best,
                          !.traceback[<<i, j>>] = SW_move(best, match, delete, insert)]
    IN  IF best > st.max_score
        THEN [upd EXCEPT !.max_score = best, !.max_i = i, !.max_j = j]
        ELSE upd

\* the inner loop of SmithWaterman.align: columns lo..hi of row i, in order
RECURSIVE SW_fill_row(_, _, _, _, _, _, _)
SW_fill_row(self, seq1, seq2, st, i, lo, hi) ==
    IF lo > hi THEN st
    ELSE IF lo = hi THEN SW_cell(self, seq1, seq2, st, i, lo)
    ELSE LET mid == (lo + hi) \div 2
             left == SW_fill_row(self, seq1, seq2, st, i, lo, mid)
         IN  IF DOMAIN left.scores # {}
             THEN SW_fill_row(self, seq1, seq2, left, i, mid + 1, hi)
             ELSE left

\* the outer loop of SmithWaterman.align: rows lo..hi, in order
RECURSIVE SW_fill_rows(_, _, _, _, _, _)
SW_fill_rows(self, seq1, seq2, st, lo, hi) ==
    IF lo > hi THEN st
    ELSE IF lo = hi THEN SW_fill_row(self, seq1, seq2, st, lo, 1, Len(seq2))
    ELSE LET mid == (lo + hi) \div 2
             left == SW_fill_rows(self, seq1, seq2, st, lo, mid)
         IN  IF DOMAIN left.scores # {}
             THEN SW_fill_rows(self, seq1, seq2, left, mid + 1, hi)
             ELSE left

\* one iteration of the loop of SmithWaterman._traceback
SW_traceback_step(tb, seq1, seq2, t) ==
    LET i == t.i
        j == t.j
        move == tb[<<i, j>>]
    IN  IF move = 0
        THEN [t EXCEPT !.aligned1 = Append(@, seq1[i]),
                       !.aligned2 = Append(@, seq2[j]),
                       !.path = Append(@, IF seq1[i] = seq2[j] THEN "E" ELSE "I"),
                       !.i = i - 1, !.j = j - 1,
                       !.cells = Append(@, <<i, j>>)]
        ELSE IF move = 1
        THEN [t EXCEPT !.aligned1 = Append(@, seq1[i]),
                       !.aligned2 = Append(@, "-"),
                       !.path = Append(@, "I"),
                       !.i = i - 1,
                       !.cells = Append(@, <<i, j>>)]
        ELSE [t EXCEPT !.aligned1 = Append(@, "-"),
                       !.aligned2 = Append(@, seq2[j]),
                       !.path = Append(@, "I"),
                       !.j = j - 1,
                       !.cells = Append(@, <<i, j>>)]

\* the loop condition of SmithWaterman._traceback
SW_traceback_continues(tb, t) == t.i > 0 /\ t.j > 0 /\ tb[<<t.i, t.j>>] # 0

\* the while loop of SmithWaterman._traceback, at most k iterations of it
RECURSIVE SW_traceback_loop(_, _, _, _, _)
SW_traceback_loop(tb, seq1, seq2, t, k) ==
    IF k = 0 \/ ~SW_traceback_continues(tb, t) THEN t
    ELSE IF k = 1 THEN SW_traceback_step(tb, seq1, seq2, t)
    ELSE SW_traceback_loop(tb, seq1, seq2,
                           SW_traceback_loop(tb, seq1, seq2, t, k \div 2), k - (k \div 2))

\* SmithWaterman._traceback; cells lists the cells the loop visited, (i, j) is
\* where it stood after start_i + start_j iterations at most
SW_traceback(tb, seq1, seq2, start_i, start_j) ==
    LET t == SW_traceback_loop(tb, seq1, seq2,
                 [aligned1 |-> <<>>, aligned2 |-> <<>>, path |-> <<>>,
                  i |-> start_i, j |-> start_j, cells |-> <<>>],
                 start_i + start_j)
    IN  [aligned1 |-> Reverse(t.aligned1), aligned2 |-> Reverse(t.aligned2),
         path |-> Reverse(t.path), cells |-> t.cells, i |-> t.i, j |-> t.j]

\* SW_degenerate with the first sequence returned twice
SW_degenerate_copy(seq1, seq2) ==
    [ok |-> TRUE,
     algorithm |-> "Smith-Waterman",
     score |-> 0,
     aligned_sequence1 |-> seq1,
     aligned_sequence2 |-> seq1,
     alignment_path |-> Repeat("I", Len(seq1)),
     start_position |-> <<0, 0>>,
     end_position |-> <<0, 0>>,
     seq1 |-> seq1,
     seq2 |-> seq2,
     cells |-> <<>>,
     stop |-> <<0, 0>>]

\* the result SmithWaterman.align returns when max_i = 0 or max_j = 0
SW_degenerate(seq1, seq2) ==
    [ok |-> TRUE,
     algorithm |-> "Smith-Waterman",
     score |-> 0,
     aligned_sequence1 |-> seq1,
     aligned_sequence2 |-> seq2,
     alignment_path |-> Repeat("I", Len(seq1)),
     start_position |-> <<0, 0>>,
     end_position |-> <<0, 0>>,
     seq1 |-> seq1,
     seq2 |-> seq2,
     cells |-> <<>>,
     stop |-> <<0, 0>>]

\* SW_result with the end offsets counted one too far
SW_result_offby1(seq1, seq2, f, tr) ==
    [ok |-> TRUE,
     algorithm |-> "Smith-Waterman",
     score |-> f.max_score,
     aligned_sequence1 |-> tr.aligned1,
     aligned_sequence2 |-> tr.aligned2,
     alignment_path |-> tr.path,
     start_position |-> <<f.max_i, f.max_j>>,
     end_position |-> <<f.max_i - Len(tr.aligned1) - 1, f.max_j - Len(tr.aligned2) - 1>>,
     query_start |-> Max2(0, f.max_i - Len(tr.aligned1) - 1),
     subject_start |-> Max2(0, f.max_j - Len(tr.aligned2) - 1),
     seq1 |-> seq1,
     seq2 |-> seq2,
     cells |-> tr.cells,
     stop |-> <<tr.i, tr.j>>]

\* the result SmithWaterman.align returns after the traceback tr from the
\* maximum cell found by the fill f
SW_result(seq1, seq2, f, tr) ==
    [ok |-> TRUE,
     algorithm |-> "Smith-Waterman",
     score |-> f.max_score,
     aligned_sequence1 |-> tr.aligned1,
     aligned_sequence2 |-> tr.aligned2,
     alignment_path |-> tr.path,
     start_position |-> <<f.max_i, f.max_j>>,
     end_position |-> <<f.max_i - Len(tr.aligned1), f.max_j - Len(tr.aligned2)>>,
     query_start |-> Max2(0, f.max_i - Len(tr.aligned1)),
     subject_start |-> Max2(0, f.max_j - Len(tr.aligned2)),
     seq1 |-> seq1,
     seq2 |-> seq2,
     cells |-> tr.cells,
     stop |-> <<tr.i, tr.j>>]

\* the fill of SmithWaterman.align: the matrices and the maximum cell
SW_fill(self, seq1, seq2) ==
    SW_fill_rows(self, seq1, seq2,
                 [scores |-> SW_init_matrices(Len(seq1), Len(seq2)).scores,
                  traceback |-> SW_init_matrices(Len(seq1), Len(seq2)).traceback,
                  max_score |-> 0, max_i |-> 0, max_j |-> 0], 1, Len(seq1))

\* SmithWaterman.align after the fill f
SW_align_filled(self, seq1, seq2, f) ==
    [res |-> IF f.max_i = 0 \/ f.max_j = 0
             THEN SW_degenerate(seq1, seq2)
             ELSE SW_result(seq1, seq2, f,
                            SW_traceback(f.traceback, seq1, seq2, f.max_i, f.max_j)),
     scores |-> f.scores,
     traceback |-> f.traceback,
     work |-> {<<Len(seq1), Len(seq2)>>}]

\* SmithWaterman.align after the validation v
SW_align_validated(self, v) ==
    IF ~v.ok THEN Raised(v)
    ELSE SW_align_filled(self, v.seq1, v.seq2, SW_fill(self, v.seq1, v.seq2))

\* SmithWaterman.align, with the matrices it built and the sizes it ran on;
\* seq1, seq2 (the validated sequences), cells (the cells the traceback
\* visited) and stop (where it ended) are kept beside the fields of the dict
SW_align(self, seq1, seq2) ==
    SW_align_validated(self, SW_validate_inputs(self, seq1, seq2))

(***************************************************************************)
(* The HMM configurations and the two decoders.  A probability is kept in  *)
(* hundredths (0.9 is 90), which every entry of HMM_CONFIGS is a whole     *)
(* number of.                                                              *)
(***************************************************************************)
\* hmm_models.HMM_CONFIGS
HMM_CONFIGS ==
    [m \in {"2-state-exon-intron", "3-state-promoter-exon-intron"} |->
        IF m = "2-state-exon-intron"
        THEN [states |-> <<"E", "I">>,
              n_states |-> 2,
              start_prob |-> <<50, 50>>,
              trans_prob |-> << <<90, 10>>,
                                <<20, 80>> >>,
              emit_prob |-> << <<30, 20, 30, 20>>,
                               <<25, 25, 25, 25>> >>]
        ELSE [states |-> <<"P", "E", "I">>,
              n_states |-> 3,
              start_prob |-> <<10, 50, 40>>,
              trans_prob |-> << <<70, 25, 5>>,
                                <<5, 85, 10>>,
                                <<10, 20, 70>> >>,
              emit_prob |-> << <<20, 30, 30, 20>>,
                               <<30, 20, 30, 20>>,
                               <<25, 25, 25, 25>> >>]]

\* the conversion with the columns of A and C exchanged
base_to_int_swapped(base) ==
    CASE UpperChar(base) = "A" -> 2
      [] UpperChar(base) = "C" -> 1
      [] UpperChar(base) = "G" -> 3
      [] UpperChar(base) = "T" -> 4

\* hmm_models.base_to_int, as an index from 1: A, C, G, T
base_to_int(base) ==
    CASE UpperChar(base) = "A" -> 1
      [] UpperChar(base) = "C" -> 2
      [] UpperChar(base) = "G" -> 3
      [] UpperChar(base) = "T" -> 4

\* numpy argmax: the lowest index of the maximum, from 1
ArgMax(v) == CHOOSE i \in DOMAIN v : (\A k \in DOMAIN v : v[k] <= v[i])
                                     /\ (\A k \in DOMAIN v : k < i => v[k] < v[i])

\* A probability of the lattice is a natural number of any size (a product of
\* hundredths), written as its digits to the base 10000, lowest first, without
\* leading zeros; the order of the numbers is the order of the logarithms
\* hmmlearn compares
RECURSIVE BigOf(_)
BigOf(n) == IF n = 0 THEN << >> ELSE << n % 10000 >> \o BigOf(n \div 10000)

RECURSIVE BigTimesFrom(_, _, _, _)
BigTimesFrom(a, k, i, carry) ==
    IF i > Len(a) THEN BigOf(carry)
    ELSE << (a[i] * k + carry) % 10000 >>
             \o BigTimesFrom(a, k, i + 1, (a[i] * k + carry) \div 10000)

\* a * k for a small natural number k
BigTimes(a, k) == IF k = 0 THEN << >> ELSE BigTimesFrom(a, k, 1, 0)

\* a < b
BigLess(a, b) ==
    \/ Len(a) < Len(b)
    \/ /\ Len(a) = Len(b)
       /\ \E i \in 1..Len(a) : a[i] < b[i] /\ \A j \in (i + 1)..Len(a) : a[j] = b[j]

\* argmax of a vector of such numbers: the lowest index of the maximum
BigArgMax(v) == CHOOSE i \in DOMAIN v : (\A k \in DOMAIN v : ~BigLess(v[i], v[k]))
                                        /\ (\A k \in DOMAIN v : k < i => BigLess(v[k], v[i]))

\* a vector with its entries computed
Vector(v) == SubSeq(v, 1, Len(v))

\* the best predecessor of state i given the lattice row prev
ViterbiFrom(cfg, prev, i) ==
    BigArgMax([j \in 1..cfg.n_states |-> BigTimes(prev[j], cfg.trans_prob[j][i])])

\* hmmlearn viterbi, forward pass: row t of the lattice from row t - 1
ViterbiRow(cfg, obs, rows, t) ==
    Vector([i \in 1..cfg.n_states |->
               IF t = 1 THEN BigOf(cfg.start_prob[i] * cfg.emit_prob[i][obs[1]])
               ELSE BigTimes(BigTimes(rows[t - 1][ViterbiFrom(cfg, rows[t - 1], i)],
                                      cfg.trans_prob[ViterbiFrom(cfg, rows[t - 1], i)][i]),
                             cfg.emit_prob[i][obs[t]])])

\* the passes lo..hi of the forward loop, after the rows 1..lo-1
RECURSIVE ViterbiRows(_, _, _, _, _)
ViterbiRows(cfg, obs, rows, lo, hi) ==
    IF lo = hi THEN Append(rows, ViterbiRow(cfg, obs, rows, lo))
    ELSE LET half == ViterbiRows(cfg, obs, rows, lo, (lo + hi) \div 2)
         IN  IF Len(half) = (lo + hi) \div 2
             THEN ViterbiRows(cfg, obs, half, ((lo + hi) \div 2) + 1, hi)
             ELSE half

\* hmmlearn viterbi, forward pass: the lattice rows 1..t
ViterbiLattice(cfg, obs, t) == ViterbiRows(cfg, obs, << >>, 1, t)

\* the value of the lattice entries of row t, each as the factors (in
\* hundredths) whose product it is: the forward pass adds the transition from
\* the best predecessor and the emission to the factors of that predecessor
ViterbiFactorRow(cfg, obs, lattice, rows, t) ==
    Vector([i \in 1..cfg.n_states |->
               IF t = 1 THEN <<cfg.start_prob[i], cfg.emit_prob[i][obs[1]]>>
               ELSE rows[t - 1][ViterbiFrom(cfg, lattice[t - 1], i)]
                        \o <<cfg.trans_prob[ViterbiFrom(cfg, lattice[t - 1], i)][i],
                             cfg.emit_prob[i][obs[t]]>>])

\* the factors of the rows lo..hi, after those of the rows 1..lo-1
RECURSIVE ViterbiFactorRows(_, _, _, _, _, _)
ViterbiFactorRows(cfg, obs, lattice, rows, lo, hi) ==
    IF lo = hi THEN Append(rows, ViterbiFactorRow(cfg, obs, lattice, rows, lo))
    ELSE LET half == ViterbiFactorRows(cfg, obs, lattice, rows, lo, (lo + hi) \div 2)
         IN  IF Len(half) = (lo + hi) \div 2
             THEN ViterbiFactorRows(cfg, obs, lattice, half, ((lo + hi) \div 2) + 1, hi)
             ELSE half

\* the factors of the lattice rows 1..t
ViterbiFactors(cfg, obs, lattice, t) == ViterbiFactorRows(cfg, obs, lattice, << >>, 1, t)

\* hmmlearn viterbi, backward pass: the states lo..hi before the states after
\* hi of a lattice of T rows, as indices from 1
RECURSIVE ViterbiBack(_, _, _, _, _, _)
ViterbiBack(cfg, lattice, after, lo, hi, T) ==
    IF lo = hi
    THEN IF lo = T THEN << BigArgMax(lattice[T]) >>
         ELSE << ViterbiFrom(cfg, lattice[lo], after[1]) >> \o after
    ELSE LET half == ViterbiBack(cfg, lattice, after, ((lo + hi) \div 2) + 1, hi, T)
         IN  IF Len(half) = T - ((lo + hi) \div 2)
             THEN ViterbiBack(cfg, lattice, half, lo, (lo + hi) \div 2, T)
             ELSE half

\* hmmlearn viterbi, backward pass: the states t..T, as indices from 1
ViterbiBacktrace(cfg, lattice, t, T) == ViterbiBack(cfg, lattice, << >>, t, T, T)

\* the dict with the labels of the decoded states listed twice
Viterbi_result_doubled(cleaned_seq, hmm_config, observations, decoded) ==
    [res |-> [ok |-> TRUE,
              decoded_path |->
                  [t \in 1..(2 * Len(cleaned_seq)) |->
                      hmm_config.states[decoded.hidden_states[((t - 1) % Len(cleaned_seq)) + 1]]],
              decoded_path_string |->
                  [t \in 1..(2 * Len(cleaned_seq)) |->
                      hmm_config.states[decoded.hidden_states[((t - 1) % Len(cleaned_seq)) + 1]]],
              log_probability |-> decoded.log_probability,
              method |-> "classical",
              sequence_length |-> Len(cleaned_seq),
              n_states |-> hmm_config.n_states,
              algorithm |-> "Viterbi (Dynamic Programming)"],
     scores |-> NoMatrix,
     traceback |-> NoMatrix,
     work |-> {<<Len(cleaned_seq)>>}]

\* the dict with every label taken from the state after the decoded one
Viterbi_result_shifted(cleaned_seq, hmm_config, observations, decoded) ==
    [res |-> [ok |-> TRUE,
              decoded_path |->
                  [t \in 1..Len(cleaned_seq) |->
                      hmm_config.states[(decoded.hidden_states[t] % hmm_config.n_states) + 1]],
              decoded_path_string |->
                  [t \in 1..Len(cleaned_seq) |->
                      hmm_config.states[(decoded.hidden_states[t] % hmm_config.n_states) + 1]],
              log_probability |-> decoded.log_probability,
              method |-> "classical",
              sequence_length |-> Len(cleaned_seq),
              n_states |-> hmm_config.n_states,
              algorithm |-> "Viterbi (Dynamic Programming)"],
     scores |-> NoMatrix,
     traceback |-> NoMatrix,
     work |-> {<<Len(cleaned_seq)>>}]

\* the dict run_classical_viterbi builds from what model.decode returned
\* (decoded.hidden_states are indices from 1); the log-probability is kept as
\* the factors of the probability, runtime_ms (a clock reading) is left out
Viterbi_result(cleaned_seq, hmm_config, observations, decoded) ==
    [res |-> [ok |-> TRUE,
              decoded_path |->
                  [t \in 1..Len(cleaned_seq) |-> hmm_config.states[decoded.hidden_states[t]]],
              decoded_path_string |->
                  [t \in 1..Len(cleaned_seq) |-> hmm_config.states[decoded.hidden_states[t]]],
              log_probability |-> decoded.log_probability,
              method |-> "classical",
              sequence_length |-> Len(cleaned_seq),
              n_states |-> hmm_config.n_states,
              algorithm |-> "Viterbi (Dynamic Programming)"],
     scores |-> NoMatrix,
     traceback |-> NoMatrix,
     work |-> {<<Len(cleaned_seq)>>}]

\* model.decode(observations, algorithm='viterbi') of hmmlearn: the value of
\* the best entry of the last lattice row and the states of the backward pass
Viterbi_decode(hmm_config, observations, lattice) ==
    [log_probability |->
         ViterbiFactors(hmm_config, observations, lattice,
                        Len(observations))[Len(observations)][BigArgMax(lattice[Len(observations)])],
     hidden_states |-> ViterbiBacktrace(hmm_config, lattice, 1, Len(observations))]

\* run_classical_viterbi after the conversion of the bases to integers
Viterbi_observed(cleaned_seq, hmm_config, observations) ==
    Viterbi_result(cleaned_seq, hmm_config, observations,
                   Viterbi_decode(hmm_config, observations,
                                  ViterbiLattice(hmm_config, observations, Len(observations))))

\* run_classical_viterbi after the validation v
Viterbi_validated(v, hmm_config) ==
    IF ~v.ok THEN Raised(v)
    ELSE Viterbi_observed(v.value, hmm_config,
                          [t \in 1..Len(v.value) |-> base_to_int(v.value[t])])

\* classical_viterbi.run_classical_viterbi
run_classical_viterbi(sequence, hmm_config) ==
    Viterbi_validated(validate_sequence(sequence), hmm_config)

\* the shots of one time step when the caller names none
DefaultShots == 1024

\* the bit strings a measurement of the circuit of build_qva_circuit can
\* return: qubit s reads 1 with probability current_probs[s] (the RY angle),
\* the RZ rotations of the emission step do not change the readings
Measurable(n, current_probs) ==
    {b \in [1..n -> {0, 1}] :
        \A s \in 1..n :
            LET prob == Max2(0, Min2(100, current_probs[s]))
            IN  /\ b[s] = 1 => prob > 0
                /\ b[s] = 0 => prob < 100}

RECURSIVE Ones(_, _)
Ones(b, k) == IF k = 0 THEN 0 ELSE b[k] + Ones(b, k - 1)

(***************************************************************************)
(* State                                                                   *)
(***************************************************************************)
\* VQEAlignment.__init__
VQEAlignment_init ==
    [max_qubits |-> 4096, match_score |-> 2, mismatch_penalty |-> -1, gap_penalty |-> -2]

\* SmithWaterman.__init__
SmithWaterman_init ==
    [match_score |-> 2, mismatch_penalty |-> -1, gap_penalty |-> -2]

\* the locals of a call that is not run_quantum_viterbi
NoQva == <<>>

\* the locals of run_quantum_viterbi after a pass of its loop in which
\* most_likely_bitstring was the most frequent reading
Qva_committed(q, most_likely_bitstring) ==
    [q EXCEPT !.decoded_path =
                  Append(@, Ones(most_likely_bitstring, q.hmm_config.n_states)
                                % q.hmm_config.n_states),
              !.current_probs =
                  q.hmm_config.trans_prob[(Ones(most_likely_bitstring, q.hmm_config.n_states)
                                              % q.hmm_config.n_states) + 1],
              !.t = @ + 1]

\* the dict run_quantum_viterbi builds from the states of its loop (runtime_ms
\* and circuit_depth, a clock reading and a property of the circuit library,
\* are left out)
Qva_result(q) ==
    [ok |-> TRUE,
     decoded_path |->
         [k \in 1..Len(q.decoded_path) |-> q.hmm_config.states[q.decoded_path[k] + 1]],
     decoded_path_string |->
         [k \in 1..Len(q.decoded_path) |-> q.hmm_config.states[q.decoded_path[k] + 1]],
     method |-> "quantum",
     qubits_used |-> q.hmm_config.n_states,
     total_shots |-> DefaultShots * Len(q.cleaned_seq),
     sequence_length |-> Len(q.cleaned_seq),
     n_states |-> q.hmm_config.n_states,
     algorithm |-> "Quantum Viterbi Algorithm (QVA)",
     simulator |-> "Qiskit Aer"]

\* round(num / den * 100, 2) in hundredths: the nearest, the even one of two
\* equally near
Rounded2(num, den) ==
    LET q == (num * 10000) \div den
        r == (num * 10000) % den
    IN  IF 2 * r > den \/ (2 * r = den /\ q % 2 = 1) THEN q + 1 ELSE q

\* the count of the positions where the two paths differ
zip_matches_unequal(quantum_path, classical_path) ==
    Cardinality({k \in 1..Min2(Len(quantum_path), Len(classical_path)) :
                    quantum_path[k] # classical_path[k]})

\* the count of the pairs of zip(quantum_path, classical_path), which stops at
\* the shorter of the two, that are equal
zip_matches(quantum_path, classical_path) ==
    Cardinality({k \in 1..Min2(Len(quantum_path), Len(classical_path)) :
                    quantum_path[k] = classical_path[k]})

\* what compare_viterbi of main.py returns from the results of the two
\* decoders (runtime_speedup, a ratio of clock readings, is left out);
\* agreement_percent is in hundredths of a percent
compare_viterbi(sequence, hmm_model, quantum_result, classical_result) ==
    IF ~classical_result.ok THEN classical_result
    ELSE [ok |-> TRUE,
          hmm_model |-> hmm_model,
          sequence_length |-> Len(sequence),
          quantum |-> quantum_result,
          classical |-> classical_result,
          comparison |->
              [agreement_percent |->
                   Rounded2(zip_matches(quantum_result.decoded_path,
                                        classical_result.decoded_path),
                            Len(quantum_result.decoded_path)),
               matches |-> zip_matches(quantum_result.decoded_path,
                                       classical_result.decoded_path),
               total_positions |-> Len(quantum_result.decoded_path)]]

\* a call that has not started
IdleCall == [pc |-> "idle", req |-> NoReq, res |-> NoRes, qva |-> NoQva]

\* no processing job in the database
NoJob == [status |-> "none", error_message |-> "none", history |-> << >>]

\* the objects shared by all calls
shared == <<vqe_engine, smith_waterman, hmm_configs>>

Init ==
    /\ pc = "idle"
    /\ req = NoReq
    /\ res = NoRes
    /\ scores = NoMatrix
    /\ traceback = NoMatrix
    /\ work = {}
    /\ qva = NoQva
    /\ vqe_engine = VQEAlignment_init
    /\ smith_waterman = SmithWaterman_init
    /\ hmm_configs = HMM_CONFIGS
    /\ calls = [i \in {1, 2} |-> IdleCall]
    /\ job = NoJob

\* the call leaves r behind: what it returned or raised, the matrices it
\* built and the sizes it ran on
Outcome(r) ==
    /\ res' = r.res
    /\ scores' = r.scores
    /\ traceback' = r.traceback
    /\ work' = r.work

\* a call of PhysioQEncoder.validate on a raw string of inputs
EncoderValidate(inputs) ==
    /\ pc = "idle"
    /\ \E raw \in inputs :
          /\ req' = [op |-> "validate", raw1 |-> raw]
          /\ res' = validate(raw)
    /\ pc' = "done"
    /\ UNCHANGED <<scores, traceback, work, qva, shared, calls, job>>

\* a call of validate_sequence on a raw string of inputs
ValidateSequence(inputs) ==
    /\ pc = "idle"
    /\ \E raw \in inputs :
          /\ req' = [op |-> "validate_sequence", raw1 |-> raw]
          /\ res' = validate_sequence(raw)
    /\ pc' = "done"
    /\ UNCHANGED <<scores, traceback, work, qva, shared, calls, job>>

\* a call of VQEAlignment.align (global mode) on the shared engine, with a
\* pair of raw strings of inputs
GlobalAlign(inputs) ==
    /\ pc = "idle"
    /\ \E p \in inputs :
          /\ req' = [op |-> "align", raw1 |-> p[1], raw2 |-> p[2]]
          /\ Outcome(VQE_align(vqe_engine, p[1], p[2]))
    /\ pc' = "done"
    /\ UNCHANGED <<qva, shared, calls, job>>

\* a call of SmithWaterman.align (local mode) on the shared engine, with a
\* pair of raw strings of inputs
LocalAlign(inputs) ==
    /\ pc = "idle"
    /\ \E p \in inputs :
          /\ req' = [op |-> "sw_align", raw1 |-> p[1], raw2 |-> p[2]]
          /\ Outcome(SW_align(smith_waterman, p[1], p[2]))
    /\ pc' = "done"
    /\ UNCHANGED <<qva, shared, calls, job>>

\* a call of VQEAlignment.align_windowed on the shared engine, with a pair of
\* raw strings of inputs and a (window_size, overlap) of params
WindowedAlign(inputs, params) ==
    /\ pc = "idle"
    /\ \E p \in inputs, wo \in params :
          /\ req' = [op |-> "align_windowed", raw1 |-> p[1], raw2 |-> p[2],
                     window_size |-> wo[1], overlap |-> wo[2]]
          /\ Outcome(VQE_align_windowed(vqe_engine, p[1], p[2], wo[1], wo[2]))
    /\ pc' = "done"
    /\ UNCHANGED <<qva, shared, calls, job>>

\* a call of run_classical_viterbi with a raw string of inputs and the
\* configuration get_hmm_config returns for a model name
DecodeExact(inputs) ==
    /\ pc = "idle"
    /\ \E raw \in inputs, model \in DOMAIN hmm_configs :
          /\ req' = [op |-> "decode_exact", raw1 |-> raw, hmm_model |-> model]
          /\ Outcome(run_classical_viterbi(raw, hmm_configs[model]))
    /\ pc' = "done"
    /\ UNCHANGED <<qva, shared, calls, job>>

\* run_quantum_viterbi up to its loop: validation and the start distribution
QvaStart(inputs) ==
    /\ pc = "idle"
    /\ \E raw \in inputs, model \in DOMAIN hmm_configs :
          LET v == validate_sequence(raw)
          IN  /\ req' = [op |-> "decode_step_local", raw1 |-> raw, hmm_model |-> model]
              /\ IF v.ok
                 THEN /\ pc' = "qva"
                      /\ res' = NoRes
                      /\ qva' = [cleaned_seq |-> v.value,
                                 hmm_config |-> hmm_configs[model],
                                 current_probs |-> hmm_configs[model].start_prob,
                                 decoded_path |-> <<>>,
                                 t |-> 0]
                 ELSE /\ pc' = "done"
                      /\ res' = v
                      /\ qva' = NoQva
    /\ UNCHANGED <<scores, traceback, work, shared, calls, job>>

\* a pass of the loop that keeps the estimate it had
QvaStep_keep ==
    /\ pc = "qva"
    /\ qva.t < Len(qva.cleaned_seq)
    /\ \E most_likely_bitstring \in Measurable(qva.hmm_config.n_states, qva.current_probs) :
          LET n_states == qva.hmm_config.n_states
              state_idx == Ones(most_likely_bitstring, n_states) % n_states
          IN  qva' = [qva EXCEPT !.decoded_path = Append(@, state_idx),
                                 !.t = @ + 1]
    /\ work' = {<<Len(qva.cleaned_seq)>>}
    /\ UNCHANGED <<pc, req, res, scores, traceback, shared, calls, job>>

\* a pass of the loop that writes the new state over the whole path
QvaStep_rewrite ==
    /\ pc = "qva"
    /\ qva.t < Len(qva.cleaned_seq)
    /\ \E most_likely_bitstring \in Measurable(qva.hmm_config.n_states, qva.current_probs) :
          LET n_states == qva.hmm_config.n_states
              state_idx == Ones(most_likely_bitstring, n_states) % n_states
          IN  qva' = [qva EXCEPT !.decoded_path = [k \in 1..(qva.t + 1) |-> state_idx],
                                 !.current_probs = qva.hmm_config.trans_prob[state_idx + 1],
                                 !.t = @ + 1]
    /\ work' = {<<Len(qva.cleaned_seq)>>}
    /\ UNCHANGED <<pc, req, res, scores, traceback, shared, calls, job>>

\* one pass of the loop of run_quantum_viterbi: the circuit is measured, the
\* most frequent bit string gives the state, whose transition row is the next
\* estimate; which bit string is the most frequent of the shots is not fixed
\* by the program
QvaStep ==
    /\ pc = "qva"
    /\ qva.t < Len(qva.cleaned_seq)
    /\ \E most_likely_bitstring \in Measurable(qva.hmm_config.n_states, qva.current_probs) :
          qva' = Qva_committed(qva, most_likely_bitstring)
    /\ work' = {<<Len(qva.cleaned_seq)>>}
    /\ UNCHANGED <<pc, req, res, scores, traceback, shared, calls, job>>

\* run_quantum_viterbi after its loop: the labels and the returned dict
\* (runtime_ms and circuit_depth, a clock reading and a property of the
\* circuit library, are left out)
QvaFinish ==
    /\ pc = "qva"
    /\ req.op = "decode_step_local"
    /\ qva.t = Len(qva.cleaned_seq)
    /\ res' = Qva_result(qva)
    /\ pc' = "done"
    /\ UNCHANGED <<req, scores, traceback, work, qva, shared, calls, job>>

\* compare_viterbi of main.py up to the loop of run_quantum_viterbi, which it
\* calls first: a raw string of inputs and a model name
CompareStart(inputs) ==
    /\ pc = "idle"
    /\ \E raw \in inputs, model \in DOMAIN hmm_configs :
          LET v == validate_sequence(raw)
          IN  /\ req' = [op |-> "compare", raw1 |-> raw, hmm_model |-> model]
              /\ IF v.ok
                 THEN /\ pc' = "qva"
                      /\ res' = NoRes
                      /\ qva' = [cleaned_seq |-> v.value,
                                 hmm_config |-> hmm_configs[model],
                                 current_probs |-> hmm_configs[model].start_prob,
                                 decoded_path |-> <<>>,
                                 t |-> 0]
                 ELSE /\ pc' = "done"
                      /\ res' = v
                      /\ qva' = NoQva
    /\ UNCHANGED <<scores, traceback, work, shared, calls, job>>

\* compare_viterbi after the loop of run_quantum_viterbi: the result of the
\* step-local decoder, the call of run_classical_viterbi and the comparison
CompareFinish ==
    /\ pc = "qva"
    /\ req.op = "compare"
    /\ qva.t = Len(qva.cleaned_seq)
    /\ res' = compare_viterbi(req.raw1, req.hmm_model, Qva_result(qva),
                              run_classical_viterbi(req.raw1, qva.hmm_config).res)
    /\ pc' = "done"
    /\ UNCHANGED <<req, scores, traceback, work, qva, shared, calls, job>>

\* the call has returned or raised; its locals are discarded
Return ==
    /\ pc = "done"
    /\ pc' = "idle"
    /\ req' = NoReq
    /\ res' = NoRes
    /\ scores' = NoMatrix
    /\ traceback' = NoMatrix
    /\ work' = {}
    /\ qva' = NoQva
    /\ UNCHANGED <<shared, calls, job>>

\* the requests of the calls that run at once
ConcurrentRequests ==
    {[op |-> o, raw1 |-> p[1], raw2 |-> p[2]] :
        o \in {"align", "sw_align"},
        p \in {<<"A">>, <<"A", "C">>, <<"N">>} \X {<<"A">>, <<"c", "A">>}}
    \cup {[op |-> o, raw1 |-> raw, hmm_model |-> model] :
              o \in {"decode_exact", "decode_step_local"},
              raw \in {<<"A">>, <<"G", "c">>, <<"N">>},
              model \in DOMAIN HMM_CONFIGS}

\* the state of a call after get_hmm_config and the first statements of
\* run_quantum_viterbi: validation and the start distribution
Call_qva_validated(c, v) ==
    IF v.ok
    THEN [c EXCEPT !.pc = "qva",
                   !.qva = [cleaned_seq |-> v.value,
                            hmm_config |-> hmm_configs[c.req.hmm_model],
                            current_probs |-> hmm_configs[c.req.hmm_model].start_prob,
                            decoded_path |-> <<>>,
                            t |-> 0]]
    ELSE [c EXCEPT !.pc = "done", !.res = v]

\* a call that has its arguments runs on the shared objects: the engines
\* return at once, run_quantum_viterbi goes into its loop
Call_run(c) ==
    CASE c.req.op = "align" ->
             [c EXCEPT !.pc = "done",
                       !.res = VQE_align(vqe_engine, c.req.raw1, c.req.raw2).res]
      [] c.req.op = "sw_align" ->
             [c EXCEPT !.pc = "done",
                       !.res = SW_align(smith_waterman, c.req.raw1, c.req.raw2).res]
      [] c.req.op = "decode_exact" ->
             [c EXCEPT !.pc = "done",
                       !.res = run_classical_viterbi(c.req.raw1,
                                                     hmm_configs[c.req.hmm_model]).res]
      [] c.req.op = "decode_step_local" ->
             Call_qva_validated(c, validate_sequence(c.req.raw1))

\* a request arrives for call i
CallStart(i) ==
    /\ calls[i].pc = "idle"
    /\ \E r \in ConcurrentRequests :
          calls' = [calls EXCEPT ![i] = [IdleCall EXCEPT !.pc = "called", !.req = r]]
    /\ UNCHANGED <<pc, req, res, scores, traceback, work, qva, shared, job>>

\* call i runs its engine or decoder
CallRun(i) ==
    /\ calls[i].pc = "called"
    /\ calls' = [calls EXCEPT ![i] = Call_run(calls[i])]
    /\ UNCHANGED <<pc, req, res, scores, traceback, work, qva, shared, job>>

\* a pass of the loop of run_quantum_viterbi in call i that writes the
\* estimate into the start distribution of the shared configuration
CallQvaStep_inplace(i) ==
    /\ calls[i].pc = "qva"
    /\ calls[i].qva.t < Len(calls[i].qva.cleaned_seq)
    /\ \E most_likely_bitstring \in Measurable(calls[i].qva.hmm_config.n_states,
                                               calls[i].qva.current_probs) :
          /\ calls' = [calls EXCEPT ![i].qva = Qva_committed(@, most_likely_bitstring)]
          /\ hmm_configs' =
                 [hmm_configs EXCEPT ![calls[i].req.hmm_model].start_prob =
                      Qva_committed(calls[i].qva, most_likely_bitstring).current_probs]
    /\ UNCHANGED <<pc, req, res, scores, traceback, work, qva, vqe_engine, smith_waterman, job>>

\* a pass of the loop of run_quantum_viterbi in call i
CallQvaStep(i) ==
    /\ calls[i].pc = "qva"
    /\ calls[i].qva.t < Len(calls[i].qva.cleaned_seq)
    /\ \E most_likely_bitstring \in Measurable(calls[i].qva.hmm_config.n_states,
                                               calls[i].qva.current_probs) :
          calls' = [calls EXCEPT ![i].qva = Qva_committed(@, most_likely_bitstring)]
    /\ UNCHANGED <<pc, req, res, scores, traceback, work, qva, shared, job>>

\* run_quantum_viterbi returns in call i
CallQvaFinish(i) ==
    /\ calls[i].pc = "qva"
    /\ calls[i].qva.t = Len(calls[i].qva.cleaned_seq)
    /\ calls' = [calls EXCEPT ![i].pc = "done", ![i].res = Qva_result(calls[i].qva)]
    /\ UNCHANGED <<pc, req, res, scores, traceback, work, qva, shared, job>>

\* call i has returned or raised; its locals are discarded
CallReturn(i) ==
    /\ calls[i].pc = "done"
    /\ calls' = [calls EXCEPT ![i] = IdleCall]
    /\ UNCHANGED <<pc, req, res, scores, traceback, work, qva, shared, job>>

\* two calls, their steps in any order
NextConcurrent ==
    \E i \in {1, 2} :
        \/ CallStart(i)
        \/ CallRun(i)
        \/ CallQvaStep(i)
        \/ CallQvaFinish(i)
        \/ CallReturn(i)

SpecConcurrent == Init /\ [][NextConcurrent]_vars

\* models.ProcessingStatus
ProcessingStatus == {"pending", "running", "completed", "failed"}

\* the document create_processing_job inserts; history is the statuses the
\* document has held, oldest first
create_processing_job == [status |-> "pending", error_message |-> "none", history |-> <<"pending">>]

\* update_processing_job on the document doc: update_ok says update_one went
\* through; when it raised, the exception is swallowed and doc stays as it was
update_processing_job(doc, status, error_message, update_ok) ==
    IF update_ok
    THEN [status |-> status,
          error_message |-> IF error_message # "none" THEN error_message ELSE doc.error_message,
          history |-> Append(doc.history, status)]
    ELSE doc

\* POST /align up to job_id = job.id: the job of the request is inserted as
\* PENDING, or insert_one raises and the request has no job
AlignCreate(inputs) ==
    /\ pc = "idle"
    /\ \E p \in inputs, insert_ok \in BOOLEAN :
          /\ req' = [op |-> "align_job", raw1 |-> p[1], raw2 |-> p[2],
                     job_id |-> IF insert_ok THEN "job" ELSE "none",
                     run_saved |-> FALSE]
          /\ job' = IF insert_ok THEN create_processing_job ELSE NoJob
          /\ res' = IF insert_ok THEN NoRes ELSE Raise("Exception")
          /\ pc' = IF insert_ok THEN "created" ELSE "failing"
    /\ UNCHANGED <<scores, traceback, work, qva, shared, calls>>

\* POST /align: update_processing_job(job_id, status=RUNNING)
AlignRunning ==
    /\ pc = "created"
    /\ \E update_ok \in BOOLEAN :
          job' = update_processing_job(job, "running", "none", update_ok)
    /\ pc' = "running"
    /\ UNCHANGED <<req, res, scores, traceback, work, qva, shared, calls>>

\* POST /align: result = vqe_engine.align(req.sequence1, req.sequence2); a
\* ValueError of the validation goes to the except branch
AlignCompute ==
    /\ pc = "running"
    /\ LET r == VQE_align(vqe_engine, req.raw1, req.raw2)
       IN  /\ Outcome(r)
           /\ pc' = IF r.res.ok THEN "computed" ELSE "failing"
    /\ UNCHANGED <<req, qva, shared, calls, job>>

\* POST /align: save_run("align", ...), which raises when the insert fails
AlignStore ==
    /\ pc = "computed"
    /\ \E insert_ok \in BOOLEAN :
          /\ req' = [req EXCEPT !.run_saved = insert_ok]
          /\ res' = IF insert_ok THEN res ELSE Raise("Exception")
          /\ pc' = IF insert_ok THEN "stored" ELSE "failing"
    /\ UNCHANGED <<scores, traceback, work, qva, shared, calls, job>>

\* POST /align: update_processing_job(job_id, status=COMPLETED, ...) and the
\* return of the results
AlignComplete ==
    /\ pc = "stored"
    /\ \E update_ok \in BOOLEAN :
          job' = update_processing_job(job, "completed", "none", update_ok)
    /\ pc' = "done"
    /\ UNCHANGED <<req, res, scores, traceback, work, qva, shared, calls>>

\* POST /align, the two except branches: if job_id, the job is updated to
\* FAILED with the message of the exception; then the HTTPException is raised
AlignFail ==
    /\ pc = "failing"
    /\ \E update_ok \in BOOLEAN :
          job' = IF req.job_id # "none"
                 THEN update_processing_job(job, "failed", res.error, update_ok)
                 ELSE job
    /\ pc' = "done"
    /\ UNCHANGED <<req, res, scores, traceback, work, qva, shared, calls>>

\* POST /align with its processing job, on short inputs
NextJob ==
    \/ AlignCreate(AlignInputs)
    \/ AlignRunning
    \/ AlignCompute
    \/ AlignStore
    \/ AlignComplete
    \/ AlignFail
    \/ Return

SpecJob == Init /\ [][NextJob]_vars

\* the alignment engines on short inputs
NextAlign ==
    \/ GlobalAlign(AlignInputs)
    \/ LocalAlign(AlignInputs)
    \/ Return

Spec == Init /\ [][NextAlign]_vars

\* the validators on raw strings
NextValidate ==
    \/ EncoderValidate(ValidateInputs)
    \/ ValidateSequence(ValidateInputs)
    \/ Return

SpecValidate == Init /\ [][NextValidate]_vars

\* the five core operations, on short inputs and on inputs around the
\* length ceiling
NextCore ==
    \/ GlobalAlign(CoreInputs)
    \/ LocalAlign(CoreInputs)
    \/ WindowedAlign(CoreInputs, WindowParams)
    \/ DecodeExact(DecodeInputs)
    \/ QvaStart(DecodeInputs)
    \/ QvaStep
    \/ QvaFinish
    \/ Return

SpecCore == Init /\ [][NextCore]_vars

\* the windowed alignment on short inputs
NextWindowed ==
    \/ WindowedAlign(WindowInputs, WindowParams)
    \/ Return

SpecWindowed == Init /\ [][NextWindowed]_vars

\* the two decoders on short inputs
NextDecode ==
    \/ DecodeExact(DecodeInputs)
    \/ QvaStart(DecodeInputs)
    \/ QvaStep
    \/ QvaFinish
    \/ Return

SpecDecode == Init /\ [][NextDecode]_vars

\* the comparison of the two decoders on short inputs
NextCompare ==
    \/ CompareStart(DecodeInputs)
    \/ QvaStep
    \/ CompareFinish
    \/ Return

SpecCompare == Init /\ [][NextCompare]_vars

\* the exact decoder on runs of one base
NextRuns ==
    \/ DecodeExact(RunInputs)
    \/ Return

SpecRuns == Init /\ [][NextRuns]_vars

(***************************************************************************)
(* Properties                                                              *)
(***************************************************************************)
\* the operation op has finished (returned or raised)
Done(op) == pc = "done" /\ req.op = op

\* the operation op has returned a result
Returned(op) == Done(op) /\ res.ok

\* the raw string without any whitespace, upper-cased
Normalized(raw) == Upper(SelectSeq(raw, LAMBDA c : c \notin Whitespace))

\* the string without its gap symbols
StripGaps(s) == SelectSeq(s, LAMBDA c : c # "-")

ATGC == <<"A", "T", "G", "C">>

\* C1: global alignment of a valid sequence with itself, under the scheme
\* (2, -1, -2), returns the score 2n, both aligned strings equal to the
\* sequence with no gap symbol, and n match markers.
C1_SelfAlignment ==
    (Returned("align") /\ Normalized(req.raw1) = Normalized(req.raw2))
        => LET s == Normalized(req.raw1)
           IN  /\ vqe_engine.match_score = 2
               /\ vqe_engine.mismatch_penalty = -1
               /\ vqe_engine.gap_penalty = -2
               /\ res.alignment_score_raw = Len(s) * 2
               /\ res.aligned_sequence1 = s
               /\ res.aligned_sequence2 = s
               /\ "-" \notin CharsOf(res.aligned_sequence1) \cup CharsOf(res.aligned_sequence2)
               /\ res.alignment_path = Repeat("E", Len(s))

C1_Witness ==
    /\ Returned("align")
    /\ req.raw1 = ATGC
    /\ req.raw2 = ATGC
    /\ res.alignment_score_raw = 8
    /\ res.alignment_path = <<"E", "E", "E", "E">>

\* C2: in global mode, deleting the gap symbols from the first aligned string
\* gives the first sequence and from the second aligned string the second.
C2_GlobalRoundTrip ==
    Returned("align")
        => /\ StripGaps(res.aligned_sequence1) = Normalized(req.raw1)
           /\ StripGaps(res.aligned_sequence2) = Normalized(req.raw2)

C2_Witness ==
    /\ Returned("align")
    /\ "-" \in CharsOf(res.aligned_sequence1)
    /\ "-" \in CharsOf(res.aligned_sequence2)
    /\ StripGaps(res.aligned_sequence1) = Normalized(req.raw1)

\* C3: in local mode with a positive score, deleting the gap symbols from each
\* aligned string gives the substring of its sequence between the reported
\* end and start offsets.
C3_LocalRoundTrip ==
    (Returned("sw_align") /\ res.score > 0)
        => /\ StripGaps(res.aligned_sequence1)
                = Slice(Normalized(req.raw1), res.end_position[1], res.start_position[1])
           /\ StripGaps(res.aligned_sequence2)
                = Slice(Normalized(req.raw2), res.end_position[2], res.start_position[2])

C3_Witness ==
    /\ Returned("sw_align")
    /\ res.score >= 4
    /\ res.start_position[1] >= 2
    /\ res.start_position[2] >= 2

\* C4: in local mode with a positive score, the traceback starts at the
\* maximum cell, follows the recorded moves until it stands on a cell of score
\* 0, so that the alignment has at least one column and every cell it passed
\* has a positive score.
C4_TracebackToZero ==
    (Returned("sw_align") /\ res.score > 0)
        => /\ Len(res.cells) >= 1
           /\ res.cells[1] = res.start_position
           /\ scores[res.stop] = 0
           /\ \A k \in 1..Len(res.cells) : scores[res.cells[k]] > 0
           /\ Len(res.aligned_sequence1) >= 1

\* C5: the local score is never negative and is the maximum over the cells of
\* the score matrix, every cell of which is floored at zero.
C5_LocalScore ==
    Returned("sw_align")
        => /\ res.score >= 0
           /\ \A c \in DOMAIN scores : scores[c] >= 0 /\ scores[c] <= res.score
           /\ \E c \in DOMAIN scores : scores[c] = res.score

C5_Witness ==
    /\ Returned("sw_align")
    /\ res.score >= 4
    /\ \E c \in DOMAIN scores :
          /\ c[1] >= 1
          /\ c[2] >= 1
          /\ scores[c] = 0
          /\ res.seq1[c[1]] # res.seq2[c[2]]

\* the alignment engines accept the raw string
EngineAccepts(raw) ==
    LET s == Strip(raw)
    IN  /\ \A i \in 1..Len(s) : UpperChar(s[i]) \in {"A", "C", "G", "T"}
        /\ Len(s) >= 1

\* C6: in local mode, when no cell exceeds zero (as when the sequences share
\* no character) the call returns the score 0, the validated inputs as aligned
\* strings, mismatch markers only and the positions (0,0).
C6_LocalDegenerate ==
    Done("sw_align")
        => /\ ( /\ EngineAccepts(req.raw1)
                /\ EngineAccepts(req.raw2)
                /\ CharsOf(Normalized(req.raw1)) \cap CharsOf(Normalized(req.raw2)) = {} )
              => (res.ok /\ \A c \in DOMAIN scores : scores[c] <= 0)
           /\ (res.ok /\ \A c \in DOMAIN scores : scores[c] <= 0)
              => /\ res.score = 0
                 /\ res.aligned_sequence1 = Normalized(req.raw1)
                 /\ res.aligned_sequence2 = Normalized(req.raw2)
                 /\ \A p \in 1..Len(res.alignment_path) : res.alignment_path[p] = "I"
                 /\ res.start_position = <<0, 0>>
                 /\ res.end_position = <<0, 0>>

C6_Witness ==
    /\ Returned("sw_align")
    /\ Len(Normalized(req.raw1)) = 2
    /\ Len(Normalized(req.raw2)) = 3
    /\ \A c \in DOMAIN scores : scores[c] <= 0
    /\ res.score = 0
    /\ res.alignment_path = <<"I", "I">>

\* C7: every result of global or local alignment has two aligned strings and
\* an annotation of one and the same length.
C7_EqualLengths ==
    (Returned("align") \/ Returned("sw_align"))
        => /\ Len(res.aligned_sequence1) = Len(res.aligned_sequence2)
           /\ Len(res.alignment_path) = Len(res.aligned_sequence1)

\* the result was built by a traceback
FromTraceback == Returned("align") \/ (Returned("sw_align") /\ res.score > 0)

\* C8: in a result built by traceback, a position carries the match marker
\* exactly when the two aligned characters are equal and neither is the gap
\* symbol, and the mismatch marker otherwise.
C8_Annotation ==
    FromTraceback
        => /\ Len(res.alignment_path) = Len(res.aligned_sequence1)
           /\ Len(res.alignment_path) = Len(res.aligned_sequence2)
           /\ \A p \in 1..Len(res.alignment_path) :
                 LET a == res.aligned_sequence1[p]
                     b == res.aligned_sequence2[p]
                 IN  res.alignment_path[p] = IF a = b /\ a # "-" /\ b # "-" THEN "E" ELSE "I"

C8_Witness ==
    /\ Returned("align")
    /\ "E" \in CharsOf(res.alignment_path)
    /\ \E p \in 1..Len(res.alignment_path) :
          /\ res.aligned_sequence1[p] = "-"
          /\ res.alignment_path[p] = "I"
    /\ \E p \in 1..Len(res.alignment_path) :
          /\ res.aligned_sequence1[p] # "-"
          /\ res.aligned_sequence2[p] # "-"
          /\ res.aligned_sequence1[p] # res.aligned_sequence2[p]
          /\ res.alignment_path[p] = "I"

\* C9: each of the two validators accepts every raw string whose characters
\* other than whitespace (spaces, tabs, newlines, carriage returns, wherever
\* they stand) are all of A, C, G, T in either case and number 1 to 500, and
\* returns exactly those characters, upper-cased, in their order.
C9_WhitespaceAnywhere ==
    \A op \in {"validate", "validate_sequence"} :
        ( /\ Done(op)
          /\ CharsOf(Normalized(req.raw1)) \subseteq VALID_BASES
          /\ Len(Normalized(req.raw1)) \in 1..MAX_BASES )
            => /\ res.ok
               /\ res.value = Normalized(req.raw1)

\* the five core operations
CoreOps == {"align", "sw_align", "align_windowed", "decode_exact", "decode_step_local"}

\* the sequences of the call after the normalization of its validator: the
\* decoders drop newlines and spaces, the engines strip the two ends
Sequences ==
    IF req.op \in {"decode_exact", "decode_step_local"}
    THEN {Upper(Remove(Remove(req.raw1, "\n"), " "))}
    ELSE {Upper(Strip(req.raw1)), Upper(Strip(req.raw2))}

\* C10: each core operation (global, local and windowed alignment, exact and
\* step-local decoding) raises EmptySequence when a sequence is empty after
\* normalization and SequenceTooLong when one is longer than 500 symbols, and
\* none runs its fill or its decoding loop on a sequence longer than 500.
C10_LengthLimits ==
    /\ \A w \in work : \A k \in 1..Len(w) : w[k] <= MAX_BASES
    /\ ( /\ pc = "done"
         /\ req.op \in CoreOps
         /\ \A seq \in Sequences : CharsOf(seq) \subseteq VALID_BASES )
           => IF \E seq \in Sequences : Len(seq) = 0
              THEN res = Raise("EmptySequence")
              ELSE IF \E seq \in Sequences : Len(seq) > MAX_BASES
              THEN res = Raise("SequenceTooLong")
              ELSE TRUE

\* a sequence of the call does not pass the validation of its operation
\* because of a symbol outside the alphabet or because it is empty
FailsValidation == \E seq \in Sequences : ~(CharsOf(seq) \subseteq VALID_BASES) \/ Len(seq) = 0

\* C11: in every operation, a sequence that fails validation (the first or
\* only the second) makes the call raise, and a call that raised has filled
\* no matrix cell, run no decoding step and left nothing of a result behind.
C11_ValidationFirst ==
    /\ (pc = "done" /\ req.op \in CoreOps /\ FailsValidation) => ~res.ok
    /\ (pc = "done" /\ req.op \in CoreOps /\ ~res.ok)
          => /\ DOMAIN res = {"ok", "error"}
             /\ work = {}
             /\ scores = NoMatrix
             /\ traceback = NoMatrix
             /\ qva = NoQva

C11_Witness ==
    /\ Done("align")
    /\ validate(req.raw1).ok
    /\ Len(validate(req.raw1).value) > 0
    /\ ~validate(req.raw2).ok
    /\ res = Raise("InvalidSymbol")
    /\ work = {}

\* the call was a windowed alignment of two valid sequences that both fit
\* into one window
FitsWindow ==
    /\ Done("align_windowed")
    /\ \A seq \in Sequences : CharsOf(seq) \subseteq VALID_BASES /\ Len(seq) \in 1..req.window_size

\* C12: when both validated sequences are no longer than window_size,
\* align_windowed returns what a direct call of align on the two sequences
\* returns, field for field.
C12_WindowedDelegates ==
    FitsWindow
        => /\ res = VQE_align(vqe_engine, req.raw1, req.raw2).res
           /\ res = VQE_align(vqe_engine, Upper(Strip(req.raw1)), Upper(Strip(req.raw2))).res
           /\ res.ok

C12_Witness ==
    /\ FitsWindow
    /\ req.window_size = 3
    /\ Len(res.seq1) = 3
    /\ Len(res.seq2) = 2
    /\ "-" \in CharsOf(res.aligned_sequence2)
    /\ "windowed" \notin DOMAIN res

\* the call was a windowed alignment that returned the result of its windows
Windowed == Returned("align_windowed") /\ "windowed" \in DOMAIN res

\* the number of windows of a sequence of length n, one every step symbols
WindowCount(n, step) == (n + step - 1) \div step

\* the parts, one after the other: parts[1] \o ... \o parts[k]
RECURSIVE Flatten(_, _)
Flatten(parts, k) == IF k = 0 THEN <<>> ELSE Flatten(parts, k - 1) \o parts[k]

\* the k-th pair of windows (k from 1) when the windows of the first sequence
\* are the outer loop and the nB windows of the second the inner one: the
\* offsets start1, end1, start2, end2
WindowPair(n, m, window_size, step, nB, k) ==
    LET a == (k - 1) \div nB
        b == (k - 1) % nB
    IN  <<a * step, Min2(a * step + window_size, n), b * step, Min2(b * step + window_size, m)>>

\* C13: when a sequence is longer than window_size (0 <= overlap <
\* window_size), align_windowed aligns each pair of a window of the first and
\* a window of the second sequence exactly once, reports (windows of A) x
\* (windows of B) window results, and its annotation is the annotations of the
\* pairs one after the other, A windows in the outer and B windows in the
\* inner loop.
C13_WindowProduct ==
    (Windowed /\ 0 <= req.overlap /\ req.overlap < req.window_size)
        => LET n == Len(res.seq1)
               m == Len(res.seq2)
               step == req.window_size - req.overlap
               nA == WindowCount(n, step)
               nB == WindowCount(m, step)
               pairs == [k \in 1..(nA * nB) |-> WindowPair(n, m, req.window_size, step, nB, k)]
               annotations ==
                   [k \in 1..(nA * nB) |->
                       VQE_align(vqe_engine,
                                 Slice(res.seq1, pairs[k][1], pairs[k][2]),
                                 Slice(res.seq2, pairs[k][3], pairs[k][4])).res.alignment_path]
           IN  /\ n > req.window_size \/ m > req.window_size
               /\ res.windows_processed = nA * nB
               /\ Len(res.window_results) = nA * nB
               /\ \A k \in 1..(nA * nB) :
                     /\ res.window_results[k].window = pairs[k]
                     /\ res.window_results[k].length = Len(annotations[k])
               /\ res.alignment_path = Flatten(annotations, nA * nB)
               /\ work = {<<pairs[k][2] - pairs[k][1], pairs[k][4] - pairs[k][3]>> :
                              k \in 1..(nA * nB)}

C13_Witness ==
    /\ Windowed
    /\ req.window_size = 2
    /\ req.overlap = 1
    /\ res.windows_processed = 12
    /\ res.window_results[1].score # res.window_results[2].score
    /\ "E" \in CharsOf(res.alignment_path)
    /\ "I" \in CharsOf(res.alignment_path)

\* C14: in the windowed path each pair of windows is aligned in local mode:
\* the score and the annotation align_windowed reports for the pair are
\* those of the local (zero-floored) alignment of the two windows.
C14_WindowsLocal ==
    Windowed
        => LET local ==
                   [k \in 1..Len(res.window_results) |->
                       LET w == res.window_results[k].window
                       IN  SW_align(smith_waterman,
                                    Slice(res.seq1, w[1], w[2]),
                                    Slice(res.seq2, w[3], w[4])).res]
           IN  /\ \A k \in 1..Len(res.window_results) :
                     /\ res.window_results[k].score = Ratio(local[k].score, 1)
                     /\ res.window_results[k].length = Len(local[k].alignment_path)
               /\ res.alignment_path
                     = Flatten([k \in 1..Len(res.window_results) |-> local[k].alignment_path],
                               Len(res.window_results))

\* the model of the request, as get_hmm_config returns it
Model == hmm_configs[req.hmm_model]

\* the observations of the request: its cleaned sequence as indices from 1
Observations ==
    LET cleaned == validate_sequence(req.raw1).value
    IN  [t \in 1..Len(cleaned) |-> (CHOOSE b \in 1..4 : <<"A", "C", "G", "T">>[b] = cleaned[t])]

\* the index, from 1, of a label among the states of a model
StateIndex(cfg, label) == CHOOSE i \in 1..cfg.n_states : cfg.states[i] = label

\* the factors, in hundredths, whose product is the joint probability of a
\* state path (indices from 1) and the observations
PathFactors(cfg, obs, path) ==
    [k \in 1..(2 * Len(obs)) |->
        LET t == (k + 1) \div 2
        IN  IF k % 2 = 0 THEN cfg.emit_prob[path[t]][obs[t]]
            ELSE IF t = 1 THEN cfg.start_prob[path[1]]
            ELSE cfg.trans_prob[path[t - 1]][path[t]]]

\* the product of the first k factors
RECURSIVE BigProduct(_, _)
BigProduct(f, k) == IF k = 0 THEN << 1 >> ELSE BigTimes(BigProduct(f, k - 1), f[k])

\* the joint probability of a state path and the observations, in units of
\* 100^(-2T)
Joint(cfg, obs, path) == BigProduct(PathFactors(cfg, obs, path), 2 * Len(obs))

\* the state path a result of a decoder reports, as indices from 1
ReportedPath == [t \in 1..Len(res.decoded_path) |-> StateIndex(Model, res.decoded_path[t])]

\* C15: the path decode_exact returns is a most probable one: no state path
\* of the same length has a strictly higher joint probability with the
\* observations, and the reported log-probability is that of the returned path
C15_MostProbablePath ==
    Returned("decode_exact") =>
        /\ Len(res.decoded_path) = Len(Observations)
        /\ \A path \in [1..Len(Observations) -> 1..Model.n_states] :
               ~BigLess(Joint(Model, Observations, ReportedPath),
                        Joint(Model, Observations, path))
        /\ BigProduct(res.log_probability, Len(res.log_probability))
               = Joint(Model, Observations, ReportedPath)

\* C15: ccc decoded with the two-state model: the introns, where AAA is the
\* exons
C15_Witness ==
    /\ Returned("decode_exact")
    /\ req.raw1 = <<"c", "c", "c">>
    /\ req.hmm_model = "2-state-exon-intron"
    /\ res.decoded_path = <<"I", "I", "I">>
    /\ res.log_probability = <<50, 25, 80, 25, 80, 25>>
    /\ run_classical_viterbi(<<"A", "A", "A">>, Model).res.decoded_path = <<"E", "E", "E">>

\* the request names a sequence the decoders accept
ValidObservations == pc = "done" /\ validate_sequence(req.raw1).ok

\* C16: for a valid observation sequence of length T decode_exact returns a
\* path of exactly T labels, each a state of the model, and a log-probability
\* that is finite and at most 0: a product of factors in (0, 1]
C16_ExactPathShape ==
    (Done("decode_exact") /\ ValidObservations) =>
        /\ res.ok
        /\ Len(res.decoded_path) = Len(validate_sequence(req.raw1).value)
        /\ res.sequence_length = Len(res.decoded_path)
        /\ \A t \in 1..Len(res.decoded_path) :
               \E i \in 1..Model.n_states : res.decoded_path[t] = Model.states[i]
        /\ res.decoded_path_string = res.decoded_path
        /\ \A k \in 1..Len(res.log_probability) : res.log_probability[k] \in 1..100

\* C16: the two-state model on ATGC returns four labels
C16_Witness ==
    /\ Returned("decode_exact")
    /\ req.raw1 = ATGC
    /\ req.hmm_model = "2-state-exon-intron"
    /\ Len(res.decoded_path) = 4
    /\ res.decoded_path \in [1..4 -> {"E", "I"}]
    /\ Len(res.log_probability) = 8

\* the request is a run of one favored base (A or G) for the two-state model
FavoredRun ==
    /\ Done("decode_exact")
    /\ req.hmm_model = "2-state-exon-intron"
    /\ ValidObservations
    /\ \E c \in {"A", "G"} : CharsOf(validate_sequence(req.raw1).value) = {c}

Stepped == pc = "qva" /\ pc' = "qva" /\ qva'.t = qva.t + 1

\* estimate[k] * emission[k][obs[t]] for the step about to run, per state k
StepScores ==
    [k \in 1..qva.hmm_config.n_states |->
        qva.current_probs[k]
            * qva.hmm_config.emit_prob[k][CHOOSE b \in 1..4 :
                <<"A", "C", "G", "T">>[b] = qva.cleaned_seq[qva.t + 1]]]

\* C18: at each step the step-local decoder commits the state k with the
\* highest estimate[k] * emission[k][obs[t]], the lowest index on ties, so that
\* the committed state is a function of the estimate and the observation
C18_CommitsArgMax ==
    [][Stepped => qva'.decoded_path[qva'.t] = ArgMax(StepScores) - 1]_vars

\* C19: the estimate of the step-local decoder is the start distribution at
\* step 0 and, from step 1 on, the transition row of the state committed at
\* the step before; the matrices of the model are never changed
C19_EstimateIsRow ==
    /\ hmm_configs = HMM_CONFIGS
    /\ pc = "qva" =>
          /\ qva.hmm_config = HMM_CONFIGS[req.hmm_model]
          /\ qva.current_probs
                = IF qva.t = 0 THEN HMM_CONFIGS[req.hmm_model].start_prob
                  ELSE HMM_CONFIGS[req.hmm_model].trans_prob[qva.decoded_path[qva.t] + 1]

\* C19: two steps done, the second state committed is the intron of the
\* two-state model and the estimate is its transition row
C19_Witness ==
    /\ pc = "qva"
    /\ req.hmm_model = "2-state-exon-intron"
    /\ qva.t = 2
    /\ qva.decoded_path = <<0, 1>>
    /\ qva.current_probs = <<20, 80>>

\* C20: every step of the step-local decoder appends exactly one state to the
\* path and leaves the states before it as they were; the returned path has
\* one label per observation, each the state of the model committed at its step
C20_PathGrowsByOne ==
    [][/\ pc' = "qva" => Len(qva'.decoded_path) = qva'.t /\ qva'.t <= Len(qva'.cleaned_seq)
       /\ (pc = "qva" /\ pc' = "qva") =>
             /\ Len(qva'.decoded_path) = Len(qva.decoded_path) + 1
             /\ SubSeq(qva'.decoded_path, 1, Len(qva.decoded_path)) = qva.decoded_path
             /\ qva'.decoded_path[qva'.t] \in 0..(qva.hmm_config.n_states - 1)
             /\ qva'.cleaned_seq = qva.cleaned_seq
       /\ (pc = "qva" /\ pc' = "done") =>
             /\ res'.ok
             /\ Len(res'.decoded_path) = Len(qva.cleaned_seq)
             /\ qva.cleaned_seq = validate_sequence(req.raw1).value
             /\ \A t \in 1..Len(res'.decoded_path) :
                    res'.decoded_path[t] = HMM_CONFIGS[req.hmm_model].states[qva.decoded_path[t] + 1]
      ]_vars

\* C20: the step-local decoder has returned three labels for three bases, not
\* all the same
C20_Witness ==
    /\ Returned("decode_step_local")
    /\ req.raw1 = <<"A", "G", "A">>
    /\ res.decoded_path = <<"E", "I", "E">>
    /\ qva.decoded_path = <<0, 1, 0>>

\* C21: the agreement percentage compare_viterbi reports (in hundredths) is
\* within [0, 100], and it is 100 exactly when the paths of the two decoders
\* have the same length and the same label at every position
C21_AgreementPercent ==
    Returned("compare") =>
        /\ res.comparison.agreement_percent \in 0..10000
        /\ res.comparison.agreement_percent = 10000
              <=> /\ Len(res.quantum.decoded_path) = Len(res.classical.decoded_path)
                  /\ \A k \in 1..Len(res.quantum.decoded_path) :
                         res.quantum.decoded_path[k] = res.classical.decoded_path[k]

\* C21: two of three labels agree, reported as 66.67
C21_Witness ==
    /\ Returned("compare")
    /\ Len(res.quantum.decoded_path) = 3
    /\ res.comparison.matches = 2
    /\ res.comparison.agreement_percent = 6667
    /\ res.quantum.decoded_path # res.classical.decoded_path

\* pairs of decoder results whose paths differ in length
MismatchedResults ==
    {<<[ok |-> TRUE, decoded_path |-> pr[1]], [ok |-> TRUE, decoded_path |-> pr[2]]>> :
        pr \in {qc \in (Strings({"E", "I"}, 2) \ {<< >>}) \X (Strings({"E", "I"}, 2) \ {<< >>}) :
                   Len(qc[1]) # Len(qc[2])}}

\* the two paths of a returned comparison have the validated length
EqualPathLengths ==
    Returned("compare") =>
        /\ Len(res.quantum.decoded_path) = Len(validate_sequence(req.raw1).value)
        /\ Len(res.classical.decoded_path) = Len(validate_sequence(req.raw1).value)

C29_SequenceLength ==
    Returned("compare") =>
        /\ res.sequence_length = res.comparison.total_positions
        /\ res.sequence_length = Len(res.quantum.decoded_path)
        /\ res.sequence_length = Len(res.classical.decoded_path)

\* the locals run_quantum_viterbi can have after its loop when it runs alone
\* from the locals q
RECURSIVE AloneRuns(_)
AloneRuns(q) ==
    IF q.t = Len(q.cleaned_seq) THEN {q}
    ELSE UNION {AloneRuns(Qva_committed(q, b)) :
                   b \in Measurable(q.hmm_config.n_states, q.current_probs)}

\* the results a request can have when its call runs alone on the objects as
\* they are constructed
AloneResults(r) ==
    CASE r.op = "align" -> {VQE_align(VQEAlignment_init, r.raw1, r.raw2).res}
      [] r.op = "sw_align" -> {SW_align(SmithWaterman_init, r.raw1, r.raw2).res}
      [] r.op = "decode_exact" -> {run_classical_viterbi(r.raw1, HMM_CONFIGS[r.hmm_model]).res}
      [] r.op = "decode_step_local" ->
             IF ~validate_sequence(r.raw1).ok THEN {validate_sequence(r.raw1)}
             ELSE {Qva_result(q) :
                      q \in AloneRuns([cleaned_seq |-> validate_sequence(r.raw1).value,
                                       hmm_config |-> HMM_CONFIGS[r.hmm_model],
                                       current_probs |-> HMM_CONFIGS[r.hmm_model].start_prob,
                                       decoded_path |-> <<>>,
                                       t |-> 0])}

\* C23: alignment and decoding calls leave the shared objects (the engines
\* with their scoring parameters, the named HMM configurations) as they were
\* constructed, and in every interleaving of the steps of two calls each call
\* returns a result it can return when it runs alone
C23_NoInterference ==
    /\ vqe_engine = VQEAlignment_init
    /\ smith_waterman = SmithWaterman_init
    /\ hmm_configs = HMM_CONFIGS
    /\ \A i \in {1, 2} :
          /\ calls[i].pc = "qva" => calls[i].qva.hmm_config = HMM_CONFIGS[calls[i].req.hmm_model]
          /\ calls[i].pc = "done" => calls[i].res \in AloneResults(calls[i].req)

\* C23: a step-local decoding has returned two labels while another, with
\* the other model, is inside its loop
C23_Witness ==
    /\ calls[1].pc = "done"
    /\ calls[1].req.op = "decode_step_local"
    /\ calls[1].res.ok
    /\ Len(calls[1].res.decoded_path) = 2
    /\ calls[2].pc = "qva"
    /\ calls[2].qva.t = 1
    /\ calls[2].req.hmm_model # calls[1].req.hmm_model

\* the three candidates of cell (i, j) of a global fill, from the score matrix
\* of the call
Candidates(i, j) ==
    [diagonal |-> scores[<<i - 1, j - 1>>]
                    + (IF res.seq1[i] = res.seq2[j] THEN vqe_engine.match_score
                       ELSE vqe_engine.mismatch_penalty),
     up |-> scores[<<i - 1, j>>] + vqe_engine.gap_penalty,
     left |-> scores[<<i, j - 1>>] + vqe_engine.gap_penalty]

\* the maximum of the candidates of cell (i, j)
Best(i, j) == Max3(Candidates(i, j).diagonal, Candidates(i, j).up, Candidates(i, j).left)

\* C24: in the global fill the recorded move follows Diagonal > Up > Left:
\* diagonal (0) exactly when the diagonal candidate is the maximum, up (1)
\* exactly when the diagonal one is smaller and the up candidate is the
\* maximum, left (2) exactly when both are smaller
C24_TieBreak ==
    Returned("align") =>
        \A i \in 1..Len(res.seq1), j \in 1..Len(res.seq2) :
            /\ scores[<<i, j>>] = Best(i, j)
            /\ traceback[<<i, j>>] = 0 <=> Candidates(i, j).diagonal = Best(i, j)
            /\ traceback[<<i, j>>] = 1 <=> /\ Candidates(i, j).diagonal < Best(i, j)
                                          /\ Candidates(i, j).up = Best(i, j)
            /\ traceback[<<i, j>>] = 2 <=> /\ Candidates(i, j).diagonal < Best(i, j)
                                          /\ Candidates(i, j).up < Best(i, j)

\* C24: a fill with a cell where the diagonal and another candidate are both
\* the maximum, and a cell where up and left are, above the diagonal one
C24_Witness ==
    /\ Returned("align")
    /\ \E i \in 1..Len(res.seq1), j \in 1..Len(res.seq2) :
          /\ Candidates(i, j).diagonal = Best(i, j)
          /\ Candidates(i, j).up = Best(i, j) \/ Candidates(i, j).left = Best(i, j)
          /\ traceback[<<i, j>>] = 0
    /\ \E i \in 1..Len(res.seq1), j \in 1..Len(res.seq2) :
          /\ Candidates(i, j).diagonal < Best(i, j)
          /\ Candidates(i, j).up = Candidates(i, j).left
          /\ traceback[<<i, j>>] = 1

\* the gapped alignments that span a sequence of length i and one of length
\* j, each the list of its columns: 0 pairs the next characters of both, 1
\* pairs the next character of the first with a gap, 2 the next character of
\* the second with a gap
RECURSIVE Alignments(_, _)
Alignments(i, j) ==
    IF i = 0 /\ j = 0 THEN {<< >>}
    ELSE (IF i > 0 /\ j > 0 THEN {Append(a, 0) : a \in Alignments(i - 1, j - 1)} ELSE {})
         \cup (IF i > 0 THEN {Append(a, 1) : a \in Alignments(i - 1, j)} ELSE {})
         \cup (IF j > 0 THEN {Append(a, 2) : a \in Alignments(i, j - 1)} ELSE {})

\* the number of the first k columns of an alignment that take a character of
\* the first sequence (which = 2) or of the second (which = 1)
Taken(a, k, which) == Cardinality({c \in 1..k : a[c] # which})

\* the sum of the first k columns of an alignment of seq1 and seq2: the match
\* reward, the mismatch penalty or the gap penalty of the engine
RECURSIVE ColumnSum(_, _, _, _, _)
ColumnSum(self, seq1, seq2, a, k) ==
    IF k = 0 THEN 0
    ELSE ColumnSum(self, seq1, seq2, a, k - 1)
         + (IF a[k] # 0 THEN self.gap_penalty
            ELSE IF seq1[Taken(a, k, 2)] = seq2[Taken(a, k, 1)] THEN self.match_score
            ELSE self.mismatch_penalty)

\* C25: the raw global score, cell (n, m) of the score matrix, is the maximum
\* over all gapped alignments that span both sequences of the sum of the
\* match rewards, mismatch penalties and gap penalties of their columns
C25_ScoreIsOptimal ==
    Returned("align") =>
        /\ res.alignment_score_raw = scores[<<Len(res.seq1), Len(res.seq2)>>]
        /\ \E a \in Alignments(Len(res.seq1), Len(res.seq2)) :
               ColumnSum(vqe_engine, res.seq1, res.seq2, a, Len(a)) = res.alignment_score_raw
        /\ \A a \in Alignments(Len(res.seq1), Len(res.seq2)) :
               ColumnSum(vqe_engine, res.seq1, res.seq2, a, Len(a)) <= res.alignment_score_raw

\* C25: ATGC against AC: the best of the 41 alignments has two matches and
\* two gaps
C25_Witness ==
    /\ Returned("align")
    /\ res.seq1 = ATGC
    /\ res.seq2 = <<"A", "C">>
    /\ Cardinality(Alignments(4, 2)) = 41
    /\ res.alignment_score_raw = 0
    /\ scores[<<4, 0>>] = -8

\* C26: the global traceback starts at (n, m), ends at (0, 0) after at most
\* n + m moves and never leaves the matrix: a diagonal move is taken only at
\* a cell with i > 0 and j > 0, an up move only with i > 0, a left move only
\* with j > 0
C26_TracebackTerminates ==
    Returned("align") =>
        /\ res.stop = <<0, 0>>
        /\ Len(res.cells) \in 1..(Len(res.seq1) + Len(res.seq2))
        /\ res.cells[1] = <<Len(res.seq1), Len(res.seq2)>>
        /\ \A k \in 1..Len(res.cells) :
               /\ res.cells[k] \in Cells(Len(res.seq1), Len(res.seq2))
               /\ traceback[res.cells[k]] = 0 => res.cells[k][1] > 0 /\ res.cells[k][2] > 0
               /\ traceback[res.cells[k]] = 1 => res.cells[k][1] > 0
               /\ traceback[res.cells[k]] = 2 => res.cells[k][2] > 0
               /\ (IF k < Len(res.cells) THEN res.cells[k + 1] ELSE res.stop)
                      = CASE traceback[res.cells[k]] = 0 ->
                                 <<res.cells[k][1] - 1, res.cells[k][2] - 1>>
                          [] traceback[res.cells[k]] = 1 ->
                                 <<res.cells[k][1] - 1, res.cells[k][2]>>
                          [] traceback[res.cells[k]] = 2 ->
                                 <<res.cells[k][1], res.cells[k][2] - 1>>

\* C26: a traceback that takes a diagonal, an up and a left move, the last
\* two in row 0 or column 0
C26_Witness ==
    /\ Returned("align")
    /\ \E k \in 1..Len(res.cells) : traceback[res.cells[k]] = 0
    /\ \E k \in 1..Len(res.cells) : traceback[res.cells[k]] = 1 /\ res.cells[k][2] = 0
    /\ \E k \in 1..Len(res.cells) : traceback[res.cells[k]] = 2
    /\ res.stop = <<0, 0>>

\* the score of column k of the returned alignment: the match reward for two
\* equal characters, the gap penalty for a column with a gap, the mismatch
\* penalty for two different characters
ColumnScore(k) ==
    IF res.aligned_sequence1[k] = "-" \/ res.aligned_sequence2[k] = "-"
    THEN vqe_engine.gap_penalty
    ELSE IF res.aligned_sequence1[k] = res.aligned_sequence2[k] THEN vqe_engine.match_score
    ELSE vqe_engine.mismatch_penalty

\* the sum of the scores of the first k columns of the returned alignment
RECURSIVE ReturnedSum(_)
ReturnedSum(k) == IF k = 0 THEN 0 ELSE ReturnedSum(k - 1) + ColumnScore(k)

\* C27: the alignment the global traceback returns has the reported raw
\* score: the scores of its columns sum to alignment_score_raw
C27_AlignmentHasScore ==
    Returned("align") =>
        /\ Len(res.aligned_sequence1) = Len(res.aligned_sequence2)
        /\ ReturnedSum(Len(res.aligned_sequence1)) = res.alignment_score_raw

\* C27: a returned alignment with a match, a mismatch and a gap column
C27_Witness ==
    /\ Returned("align")
    /\ \E k \in 1..Len(res.aligned_sequence1) : ColumnScore(k) = vqe_engine.match_score
    /\ \E k \in 1..Len(res.aligned_sequence1) : ColumnScore(k) = vqe_engine.mismatch_penalty
    /\ \E k \in 1..Len(res.aligned_sequence1) : res.aligned_sequence2[k] = "-"
    /\ res.alignment_score_raw = -1

\* the windows align_windowed reports for one of its sequences: which = 1 for
\* the first, 3 for the second; each is its offsets <<start, end>>
WindowsOf(which) ==
    {<<res.window_results[k].window[which], res.window_results[k].window[which + 1]>> :
        k \in 1..Len(res.window_results)}

\* the windows cut a sequence of length L as range(0, L, window_size -
\* overlap) says: non-empty, no longer than window_size, covering 0..L-1
WindowsCover(windows, L, window_size, step) ==
    /\ {w[1] : w \in windows} = {s \in 0..(L - 1) : s % step = 0}
    /\ Cardinality(windows) = Cardinality({s \in 0..(L - 1) : s % step = 0})
    /\ \A w \in windows :
          /\ w[1] >= 0
          /\ w[1] < w[2]
          /\ w[2] <= L
          /\ w[2] - w[1] <= window_size
          /\ w[2] = Min2(w[1] + window_size, L)
    /\ \A pos \in 0..(L - 1) : \E w \in windows : w[1] <= pos /\ pos < w[2]

\* C28: with 0 <= overlap < window_size the windows of each sequence of
\* length L start at 0, (w - o), 2 (w - o), ... below L; every window is
\* non-empty and no longer than window_size, every position of the sequence
\* is in at least one window, and the loops end after finitely many windows.
C28_WindowsCover ==
    (Windowed /\ 0 <= req.overlap /\ req.overlap < req.window_size)
        => LET step == req.window_size - req.overlap
           IN  /\ WindowsCover(WindowsOf(1), Len(res.seq1), req.window_size, step)
               /\ WindowsCover(WindowsOf(3), Len(res.seq2), req.window_size, step)
               /\ Len(res.window_results)
                     = Cardinality(WindowsOf(1)) * Cardinality(WindowsOf(3))
               /\ Len(res.window_results) <= Len(res.seq1) * Len(res.seq2)

C28_Witness ==
    /\ Windowed
    /\ req.window_size = 3
    /\ req.overlap = 1
    /\ WindowsOf(1) = {<<0, 3>>, <<2, 4>>}
    /\ WindowsOf(3) = {<<0, 2>>}

\* the handler of POST /align has returned or raised
Handled == Done("align_job")

\* C30: every job POST /align creates passes PENDING then RUNNING and is
\* COMPLETED or FAILED when the handler returns or raises: COMPLETED only if
\* the alignment and the storage of the run both succeeded, FAILED with the
\* error message recorded on any exception; no job is left PENDING or
\* RUNNING, and a COMPLETED job is never set FAILED afterwards.
C30_JobLifecycle ==
    (Handled /\ req.job_id # "none")
        => /\ job.status \in {"completed", "failed"}
           /\ Len(job.history) = 3
           /\ SubSeq(job.history, 1, 2) = <<"pending", "running">>
           /\ job.status = "completed" <=> (res.ok /\ req.run_saved)
           /\ job.status = "failed" <=> ~res.ok
           /\ ~res.ok => job.error_message = res.error
           /\ \A k \in 1..Len(job.history), l \in 1..Len(job.history) :
                 (job.history[k] = "completed" /\ k < l) => job.history[l] # "failed"

====
